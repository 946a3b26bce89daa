---- MODULE MediaFeatures ----
(***************************************************************************)
(* What a Client and the macOS Host agree to send: the offer, the launch   *)
(* that follows it and the reply (control/media-features.h), the catalogue *)
(* of encodings (plank_encoding_profiles.h) and the part the session plays *)
(* (media/preview-session.m, session/host-runtime.m).  A JSON object is a  *)
(* record with the keys that are looked at; 0 stands for a number that is  *)
(* none of 1..65535, a fraction or a Boolean.                              *)
(***************************************************************************)
EXTENDS Integers, Sequences, SequencesExt

CONSTANTS
    Offers,            \* [schema_version, transport, required_features, features]: requests
    OtherLaunches(_)   \* the launches a Client may send that are not what was negotiated,
                       \* each derived from the one that is

VARIABLES
    offer,       \* the member of Offers at hand
    negotiated,  \* [status, features]: the Host's answer
    launchRequest,     \* the launch request, or <<>>
    session,     \* the session prepared for it: [clipboard, microphone, camera, schema]
    launchReply        \* [status, features]: the answer to the launch

mediaVars == <<offer, negotiated, launchRequest, session, launchReply>>

PLANKMacMediaNames == <<"desktop", "audio", "input", "clipboard", "microphone", "camera">>
Names == ToSet(PLANKMacMediaNames)
Optional == {"clipboard", "microphone", "camera"}
NSNull == [null |-> TRUE]
Wire == "plank-native/2"

-----------------------------------------------------------------------------
(* The catalogue of encodings *)

CaptureSources == [nvfbc |-> 0, x11 |-> 1, screencapturekit |-> 2]
EncodingProfiles ==
    LET entry(m, e, mask) == [mode |-> m, encoder |-> e, capture_mask |-> mask]
    IN  <<entry("h264-10-444-software", "x264", 3), entry("h264-8-422-software", "x264", 1),
          entry("h264-8-444-software", "x264", 1), entry("h264-10-422-software", "x264", 1),
          entry("h264-8-444-nvenc", "nvenc", 1), entry("hevc-8-444-nvenc", "nvenc", 1),
          entry("hevc-10-444-nvenc", "nvenc", 3), entry("hevc-10-420-videotoolbox", "apple", 4),
          entry("hevc-10-444-videotoolbox", "apple", 4)>>

\* plank_encoding_profile_named, as the entries (none or one) it can return.
ProfilesNamed(mode) == {p \in ToSet(EncodingProfiles) : p.mode = mode}
\* plank_encoding_supports_capture.
SupportsCapture(profile, source) == (profile.capture_mask \div 2 ^ CaptureSources[source]) % 2 = 1
\* PLANKMacEncodingProfile returns something.
MacEncodes(mode) == \E p \in ProfilesNamed(mode) : p.encoder = "apple"

-----------------------------------------------------------------------------
(* Profiles of the features *)

\* features[name] of a request, and encoding_mode of a choice.
Feature(features, name) == IF name \in DOMAIN features THEN features[name] ELSE NSNull
Mode(choice) == IF "encoding_mode" \in DOMAIN choice THEN choice["encoding_mode"] ELSE ""

MediaProfile(name, mode) ==
    CASE name = "desktop" -> [schema_version |-> 1, encoding_mode |-> mode]
      [] name = "audio" -> [schema_version |-> 1, codec |-> "opus", packet_duration_ms |-> 5]
      [] name = "input" -> [schema_version |-> 1, mouse |-> "absolute", pen |-> "normalized"]
      [] name = "clipboard" -> [schema_version |-> 1]
      [] name = "microphone" -> [schema_version |-> 2, codec |-> "opus", packet_duration_ms |-> 10]
      [] name = "camera" -> [schema_version |-> 1, codecs |-> <<"h264-annex-b", "mjpeg">>]

IsTimed(choice) == "schema_version" \in DOMAIN choice /\ choice["schema_version"] = 3

\* PLANKMacMediaSelectedProfile.
SelectedProfile(name, mode, choice) ==
    IF name = "microphone" /\ choice # NSNull /\ IsTimed(choice)
    THEN [schema_version |-> 3, codec |-> "opus", packet_duration_ms |-> 10,
          capture_clock |-> "monotonic-ns"]
    ELSE MediaProfile(name, mode)

\* PLANKMacMediaContainsProfile.
ContainsProfile(value, expected) ==
    /\ value # NSNull
    /\ \A k \in DOMAIN expected : k \in DOMAIN value /\ value[k] = expected[k]

\* PLANKMacMediaRequired.
RequiredValid(required) ==
    ToSet(required) \subseteq Names /\ IsInjective(required)
    /\ {"desktop", "audio", "input"} \subseteq ToSet(required)

\* PLANKMacMicrophoneSchema of the request as it arrived.
MicrophoneSchema(r) ==
    IF r.schema_version = 7 /\ Feature(r.features, "microphone") # NSNull
       /\ IsTimed(r.features["microphone"])
    THEN 3 ELSE 2

-----------------------------------------------------------------------------
(* Negotiation *)

VersionValid(v) == v \in 1..65535

\* The loop over the choices of one feature: the first whose profile is a known one.
Chosen(name, mode, choices) ==
    LET candidate(c) == IF name = "desktop" THEN Mode(c) ELSE mode
        profile(c) == SelectedProfile(name, candidate(c), c)
        fits(c) == (name = "desktop" => MacEncodes(candidate(c))) /\ ContainsProfile(c, profile(c))
    IN  IF \E i \in DOMAIN choices : fits(choices[i]) THEN profile(choices[SelectInSeq(choices, fits)])
        ELSE NSNull

\* PLANKMacNegotiateMedia.
Negotiate(o) ==
    LET choices(n) == IF n \in DOMAIN o.features THEN o.features[n] ELSE <<>>
        desktop == Chosen("desktop", "", choices("desktop"))
        mode == Mode(desktop)
        selected == [n \in Names |-> IF n = "desktop" THEN desktop ELSE Chosen(n, mode, choices(n))]
        \* The loop ends at the first feature that is malformed or missing.
        malformed(n) == \E i \in DOMAIN choices(n) : ~VersionValid(choices(n)[i].schema_version)
        missing(n) == selected[n] = NSNull /\ n \in ToSet(o.required_features)
        ends == SelectInSeq(PLANKMacMediaNames, LAMBDA n : malformed(n) \/ missing(n))
        refused(status) == [status |-> status, features |-> <<>>]
    IN  IF ~VersionValid(o.schema_version) THEN refused(400)
        ELSE IF \/ o.schema_version # 1 \/ o.transport # Wire
                \/ ~RequiredValid(o.required_features) THEN refused(426)
        ELSE IF ends = 0 THEN [status |-> 200, features |-> selected]
        ELSE refused(IF malformed(PLANKMacMediaNames[ends]) THEN 400 ELSE 426)

-----------------------------------------------------------------------------
(* Launch *)

RequestKeys == {"capture_generation", "capture_id", "max_udp_payload_size"}
DesktopKeys == {"width", "height", "encoding_mode", "frame_rate", "bitrate_kbps"}

\* PLANKMacNormalizeMediaLaunch returns something: all its 12 keys are there.
Normalizes(r) ==
    LET desktop == Feature(r.features, "desktop")
    IN  /\ r.schema_version = 7 /\ r.transport = Wire /\ RequiredValid(r.required_features)
        /\ desktop # NSNull /\ MacEncodes(Mode(desktop))
        /\ \A n \in Names :
             LET value == Feature(r.features, n)
             IN  value # NSNull \/ n \in ToSet(r.required_features) =>
                   ContainsProfile(value, SelectedProfile(n, Mode(desktop), value))
        /\ RequestKeys \subseteq DOMAIN r /\ DesktopKeys \subseteq DOMAIN desktop

\* initWithSessions of the session: what was asked for and can be had here.
Prepared(r, available) ==
    [n \in Optional |-> Feature(r.features, n) # NSNull /\ n \in available]
    @@ ("schema" :> MicrophoneSchema(r))

\* Mutation: the reply names the current version of each feature.
ReplyProfileCurrent(name, mode, choice) == MediaProfile(name, mode)

\* The profile PLANKMacMediaReplyFeatures puts into the reply for an enabled feature.
ReplyProfile(name, mode, choice) == SelectedProfile(name, mode, choice)

\* PLANKMacMediaReplyFeatures.
ReplyFeatures(r, s) ==
    LET desktop == r.features["desktop"]
        feature(n) == IF n \in Optional /\ ~s[n] THEN NSNull
                      ELSE ReplyProfile(n, Mode(desktop), Feature(r.features, n))
    IN  [n \in Names |-> IF n = "desktop"
                         THEN [k \in DesktopKeys |-> desktop[k]] @@ feature(n) ELSE feature(n)]

-----------------------------------------------------------------------------
Nothing == [status |-> 0, features |-> <<>>]
MediaInit ==
    /\ offer \in Offers /\ negotiated = Nothing
    /\ launchRequest = <<>> /\ session = <<>> /\ launchReply = Nothing

AnswerOffer ==
    /\ negotiated = Nothing /\ negotiated' = Negotiate(offer)
    /\ UNCHANGED <<offer, launchRequest, session, launchReply>>

\* The launch of what was negotiated: the Client adds the geometry and the capture.
LaunchOf(o, n) ==
    [schema_version |-> 7, transport |-> Wire, required_features |-> o.required_features,
     features |-> [n.features EXCEPT !["desktop"] =
        @ @@ [width |-> 1920, height |-> 1080, frame_rate |-> 60, bitrate_kbps |-> 50000]],
     capture_generation |-> 1, capture_id |-> 1, max_udp_payload_size |-> 1200]

SendLaunch ==
    /\ negotiated.status = 200 /\ launchRequest = <<>>
    /\ LET launch == LaunchOf(offer, negotiated)
       IN  launchRequest' \in {launch} \cup OtherLaunches(launch)
    /\ UNCHANGED <<offer, negotiated, session, launchReply>>

\* launch of the host runtime, as far as the features go: the topology matches only a
\* request that normalizes.
AnswerLaunch(available) ==
    /\ launchRequest # <<>> /\ launchReply = Nothing
    /\ \/ /\ ~Normalizes(launchRequest)
          /\ launchReply' = [Nothing EXCEPT !.status = 400] /\ UNCHANGED session
       \/ /\ Normalizes(launchRequest)
          /\ session' = Prepared(launchRequest, available)
          /\ launchReply' =
               IF \A n \in Optional \cap ToSet(launchRequest.required_features) : session'[n]
               THEN [status |-> 200, features |-> ReplyFeatures(launchRequest, session')]
               ELSE [Nothing EXCEPT !.status = 426]
    /\ UNCHANGED <<offer, negotiated, launchRequest>>

MediaNext == AnswerOffer \/ SendLaunch \/ \E a \in SUBSET Optional : AnswerLaunch(a)

-----------------------------------------------------------------------------
(* Properties *)

\* Of PLANKMacNegotiateMedia, PLANKMacNormalizeMediaLaunch and PLANKMacMediaReplyFeatures
\* together: a Client that launches what it was told is not refused for its request; a
\* feature it required is in the reply; every feature of the reply is one the launch
\* asked for, in the version it asked for; the microphone of the reply has the version
\* the session's endpoint was opened with; and the encoding is one the Client offered
\* and ScreenCaptureKit can feed.
LaunchAsNegotiated ==
    /\ negotiated.status = 200 /\ launchRequest = LaunchOf(offer, negotiated) =>
         launchReply.status # 400
    /\ launchReply.status = 200 =>
         /\ \A n \in ToSet(launchRequest.required_features) : launchReply.features[n] # NSNull
         /\ \A n \in Names : launchReply.features[n] # NSNull =>
              ContainsProfile(Feature(launchRequest.features, n), launchReply.features[n])
         /\ launchReply.features["microphone"] # NSNull =>
              launchReply.features["microphone"].schema_version = session["schema"]
         /\ LET mode == launchReply.features["desktop"].encoding_mode
            IN  /\ \A p \in ProfilesNamed(mode) : SupportsCapture(p, "screencapturekit")
                /\ launchRequest = LaunchOf(offer, negotiated) =>
                     \E i \in DOMAIN offer.features["desktop"] :
                       Mode(offer.features["desktop"][i]) = mode
====
