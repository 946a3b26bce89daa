SPECIFICATION MCSpec
CONSTANT ClientOptions <- MCClientOptions
CONSTANT PipelineOptions <- MCPipelineOptions
CONSTANT DecoderDepth = 1
CONSTANT BridgeTablets <- MCTablets
CONSTANT MaxInterfaces = 2
CONSTANT SocketFrames = 2
CONSTANT MaxEvents = 3
INVARIANT ProbesRelease
 
INVARIANT InvalidateAfterLoss
INVARIANT ConversionExact
INVARIANT LoopbackPasses
INVARIANT BridgeRelays
PROPERTY ProbesProgress
CHECK_DEADLOCK FALSE
