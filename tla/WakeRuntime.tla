---------------------------- MODULE WakeRuntime ----------------------------
(***************************************************************************)
(* Wake-word detection: audio/wake-runtime.ts, which opens and releases    *)
(* the microphone as two configuration rows are turned on and off.  A      *)
(* change of a row runs refresh() without waiting for the one before; its  *)
(* start() awaits the fetch of the models, then the opening of the device. *)
(*                                                                         *)
(* A refresh makes at most one listener, which therefore has its name.     *)
(* `active` stands for both rows on and nothing blocking.  The listener of *)
(* the SDK is external: started, it opens the device or refuses; stopped   *)
(* before that, it opens nothing; it may give up ("latch") at any time.    *)
(***************************************************************************)

CONSTANT Refreshes

VARIABLES
    active,       \* does the configuration ask for detection?
    provisioned,  \* are the models on disk?
    pc,           \* where each refresh is
    listener,     \* the held listener, as a set of at most one
    open,         \* listeners whose device is open
    stopped,      \* listeners told to stop
    answered,     \* was the person told why nothing is listening?
    torn,         \* has the shell been torn down?
    lateFetch,    \* did a fetch end after the reason for it was gone?
    lateRefusal   \* did a start refuse after its listener was replaced?

vars == <<active, provisioned, pc, listener, open, stopped, answered, torn, lateFetch, lateRefusal>>

TypeOK ==
    /\ {active, provisioned, answered, torn, lateFetch, lateRefusal} \subseteq BOOLEAN
    /\ pc \in [Refreshes -> {"unused", "fetching", "opening", "done"}]
    /\ listener \subseteq Refreshes /\ \A r, s \in listener : r = s
    /\ open \subseteq Refreshes /\ stopped \subseteq Refreshes

Init ==
    /\ active = FALSE /\ provisioned \in BOOLEAN
    /\ pc = [r \in Refreshes |-> "unused"]
    /\ listener = {} /\ open = {} /\ stopped = {}
    /\ answered = FALSE /\ torn = FALSE
    /\ lateFetch = FALSE /\ lateRefusal = FALSE

Goto(r, stage) == pc' = [pc EXCEPT ![r] = stage]

\* stop()
Stop ==
    /\ listener' = {}
    /\ open' = open \ listener
    /\ stopped' = stopped \cup listener

\* Variant: the listener before is kept beside the new one.
StartListener_Beside(r) == listener' = listener \cup {r} /\ Goto(r, "opening")

\* start() from the construction of the listener to its await.
StartListener(r) == listener' = {r} /\ Goto(r, "opening")

\* Variant: a held listener is not looked for.
Refresh_NoGuard(r, asked) ==
    /\ pc[r] = "unused"
    /\ \/ /\ ~asked
          /\ Stop /\ Goto(r, "done")
          /\ answered' = FALSE
       \/ /\ asked /\ provisioned
          /\ StartListener(r)
          /\ UNCHANGED <<open, stopped, answered>>
       \/ /\ asked /\ ~provisioned
          /\ Goto(r, "fetching")
          /\ UNCHANGED <<listener, open, stopped, answered>>

\* refresh(), up to its first await, under the configuration asked for.
Refresh(r, asked) ==
    /\ pc[r] = "unused"
    /\ \/ /\ ~asked
          /\ Stop /\ Goto(r, "done")
          /\ answered' = FALSE
       \/ /\ asked /\ listener # {}
          /\ Goto(r, "done")
          /\ UNCHANGED <<listener, open, stopped, answered>>
       \/ /\ asked /\ listener = {} /\ provisioned
          /\ StartListener(r)
          /\ UNCHANGED <<open, stopped, answered>>
       \/ /\ asked /\ listener = {} /\ ~provisioned
          /\ Goto(r, "fetching")
          /\ UNCHANGED <<listener, open, stopped, answered>>

\* startWakeRuntime(): a row changes, or is applied for the first time.
Configure(r) ==
    /\ ~torn
    /\ \E asked \in BOOLEAN :
         /\ active' = asked
         /\ Refresh(r, asked)
    /\ UNCHANGED <<provisioned, torn, lateFetch, lateRefusal>>

\* ensureProvisioned() settles and the disk is read again.
FetchFails(r) ==
    /\ pc[r] = "fetching"
    /\ Goto(r, "done")
    /\ answered' = TRUE
    /\ UNCHANGED <<active, provisioned, listener, open, stopped, torn, lateFetch, lateRefusal>>

FetchEnds(r) ==
    /\ pc[r] = "fetching"
    /\ provisioned' = TRUE
    /\ lateFetch' = (lateFetch \/ ~active \/ torn \/ listener # {})
    /\ StartListener(r)
    /\ UNCHANGED <<active, open, stopped, answered, torn, lateRefusal>>

\* active.start() settles.
DeviceOpens(r) ==
    /\ pc[r] = "opening"
    /\ r \notin stopped
    /\ open' = open \cup {r}
    /\ answered' = FALSE
    /\ Goto(r, "done")
    /\ UNCHANGED <<active, provisioned, listener, stopped, torn, lateFetch, lateRefusal>>

DeviceRefused(r) ==
    /\ pc[r] = "opening"
    /\ listener' = {}
    /\ lateRefusal' = (lateRefusal \/ listener \ {r} # {})
    /\ answered' = TRUE
    /\ Goto(r, "done")
    /\ UNCHANGED <<active, provisioned, open, stopped, torn, lateFetch>>

\* onFailure() without a restart: the detector stays off and says so.
Latch(r) ==
    /\ r \in open
    /\ open' = open \ {r}
    /\ answered' = TRUE
    /\ UNCHANGED <<active, provisioned, pc, listener, stopped, torn, lateFetch, lateRefusal>>

\* The shell's unsubs: the subscriptions go and the device is released.
TearDown ==
    /\ ~torn
    /\ torn' = TRUE
    /\ Stop
    /\ UNCHANGED <<active, provisioned, pc, answered, lateFetch, lateRefusal>>

Settles(r) == FetchFails(r) \/ FetchEnds(r) \/ DeviceOpens(r) \/ DeviceRefused(r)

Next ==
    \/ \E r \in Refreshes : Configure(r) \/ Settles(r) \/ Latch(r)
    \/ TearDown

Spec == Init /\ [][Next]_vars

(* Every awaited call settles; nobody has to touch a row. *)
FairSpec == Spec /\ \A r \in Refreshes : WF_vars(Settles(r))

----------------------------------------------------------------------------
(* stop() and status() reach every open device: it is the one of the held  *)
(* listener.  The code loses one in two ways only: a fetch of models that  *)
(* ends after the row was turned off or another start took the listener    *)
(* (start() does not look again), and a start that refuses after its       *)
(* listener was replaced (it clears `listener`, whosever it is by then).   *)
MicrophoneIsHeld == lateFetch \/ lateRefusal \/ open \subseteq listener

(* Off is off: no device is open once a row is turned off or the shell is  *)
(* torn down, whatever was in flight, those two ways apart.                *)
OffMeansSilent == (~active \/ torn) => open = {} \/ lateFetch \/ lateRefusal

(* Turning detection on ends in a listening device or in a sentence saying *)
(* why there is none, however often the rows were changed on the way.      *)
OnIsAnswered ==
    active /\ ~torn ~> open # {} \/ answered \/ ~active \/ torn

(* "Disabled means no device is opened at all" (wake-runtime.ts:22).       *)
OffOpensNothing == [][~active /\ ~active' => open' \subseteq open]_vars
============================================================================
