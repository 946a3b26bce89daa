---- MODULE MCProbes ----
(* The qualification programs on small command lines: both video pipelines, the      *)
(* transport loopback and the tablet bridge; `probe' is the one that runs.            *)
EXTENDS QualificationPipelines, FfiLoopback, WacomBridge

VARIABLE probe

Base == [DefaultOptions EXCEPT !.frames = 3]

\* Accepted command lines in both queue depths with a loss at either end of its
\* range, and one refused by each of the checks.
MCPipelineOptions ==
    {Base,
     [Base EXCEPT !.depth = 0, !.frames = 2, !.reference = "other", !.loss = 1,
                  !.invalidate = FALSE],
     [Base EXCEPT !.frames = 4, !.loss = 1, !.idr = 4, !.robust = TRUE,
                  !.reference = "other"],
     [Base EXCEPT !.frames = 5, !.loss = 2, !.delay = 3],
     [Base EXCEPT !.loss = 1, !.delay = 1],
     [Base EXCEPT !.depth = 0, !.loss = 1, !.delay = 1],
     [Base EXCEPT !.loss = 2], [Base EXCEPT !.frames = 0], [Base EXCEPT !.count = 60],
     [Base EXCEPT !.fps = 241], [Base EXCEPT !.refs = 9],
     [Base EXCEPT !.reference = "same"], [Base EXCEPT !.mbps = 4001],
     [Base EXCEPT !.split = "always"]}

ClientBase == [frames |-> 3, lead |-> 0, mode |-> "threaded", limit |-> 0, stream |-> 4]

\* Every mode; a stream longer, as long as and shorter than the frames asked for.
MCClientOptions ==
    {ClientBase, [ClientBase EXCEPT !.mode = "serial"], [ClientBase EXCEPT !.stream = 2],
     [ClientBase EXCEPT !.mode = "async", !.limit = 2, !.lead = 1000],
     [ClientBase EXCEPT !.mode = "async-nofifo", !.frames = 2, !.stream = 2],
     [ClientBase EXCEPT !.limit = 1], [ClientBase EXCEPT !.lead = 16667]}

OneTablet == <<"a", "a">>

\* An accepted tablet, one of too many interfaces, and two tablets mixed.
MCTablets == {OneTablet, <<"a", "a", "a">>, <<"a", "b">>}

MCInit ==
    /\ PipelineInit /\ ClientInit /\ LoopbackInit /\ BridgeInit
    /\ probe \in {"host", "client", "loopback", "bridge"}
    /\ probe # "host" => opt = Base
    /\ probe # "client" => cl.opt = ClientBase
    /\ probe # "loopback" => ~lb.profile
    /\ probe # "bridge" => tablets = OneTablet
MCNext ==
    \/ probe = "host" /\ PipelineNext /\ UNCHANGED <<clientVars, loopbackVars, bridgeVars, probe>>
    \/ probe = "client" /\ ClientNext /\ UNCHANGED <<pipelineVars, loopbackVars, bridgeVars, probe>>
    \/ probe = "loopback" /\ LoopbackNext /\ UNCHANGED <<pipelineVars, clientVars, bridgeVars, probe>>
    \/ probe = "bridge" /\ BridgeNext /\ UNCHANGED <<pipelineVars, clientVars, loopbackVars, probe>>

\* PipelineFairness, ClientFairness or BridgeFairness, of the one that runs.
MCFairness ==
    /\ WF_pipelineVars(probe = "host" /\ MainStep)
    /\ WF_pipelineVars(probe = "host" /\ DrainStep)
    /\ WF_pipelineVars(probe = "host" /\ WorkerStep)
    /\ WF_clientVars(probe = "client" /\ ClientMain)
    /\ WF_clientVars(probe = "client" /\ Streaming)
    /\ WF_clientVars(probe = "client" /\ Presenting)
    /\ WF_bridgeVars(probe = "bridge" /\ ClientSteps)
    /\ WF_bridgeVars(probe = "bridge" /\ HostSteps)
MCSpec ==
    /\ MCInit /\ [][MCNext]_<<pipelineVars, clientVars, loopbackVars, bridgeVars, probe>>
    /\ MCFairness

\* Of the pipeline that runs, PipelineEnds or ClientEnds: no wake-up is lost between its
\* threads, so the process ends whatever fails first.  Of the bridge, RequestsAnswered
\* and BridgeEnds: neither poll loop starves the other direction, blocks for good in a
\* send or outlives its peer.
ProbesProgress ==
    /\ probe \in {"host", "client"} ~> PipelineEnds \/ ClientEnds
    /\ RequestsAnswered /\ BridgeEnds
====
