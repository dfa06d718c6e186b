----------------------------- MODULE LiveSession -----------------------------
(***************************************************************************)
(* Which saved session the conversation on screen belongs to: the commands *)
(* of input/commands/session-workflow.ts, session-content.ts, shell-core.ts*)
(* and fresh-conversation.ts, the save after every completed turn of       *)
(* shell/startup-wiring.ts, the rewind anchors of                          *)
(* runtime/rewind-anchor-wiring.ts, and how a launch begins and ends.      *)
(*                                                                         *)
(* A transcript is the set of its turns, numbered as they are asked.       *)
(* Session ids are numbered as they are made: a launch makes one, a fork   *)
(* and a kept copy make one each, a save names an old or a new one.  The   *)
(* store itself, the orchestrator that appends a reply to the conversation *)
(* and the runtime's own shutdown belong to the SDK.                       *)
(***************************************************************************)
EXTENDS Integers, FiniteSets, Functions

CONSTANTS
    NumIds,      \* bound: session ids, the earlier session's included
    MaxTurns,    \* bound: turns, the earlier session's included
    MaxLaunches, \* bound: launches
    MaxCommands  \* bound: commands

Ids        == 1..NumIds
Turns      == 1..MaxTurns
Nothing    == 0

VARIABLES
    home,      \* runtime.sessionId
    boot,      \* runtimeSessionIdRef: the id the launch made
    screen,    \* the transcript on screen
    running,   \* the turn under way
    files,     \* the saved sessions
    pointer,   \* last-session.json
    anchors,   \* the turns each session can be rewound to
    offer,     \* the recovery snapshot this launch offers, while its prompt is up
    ids, turns, launches, commands, \* how many there have been
    madeIn,    \* the session in use when a turn completed
    dropped,   \* turns of a file that was deleted or saved over on request
    strayed,   \* was a transcript put on screen, or saved, under another's id?
    crossed,   \* was the transcript replaced under the running turn?
    misplaced  \* did a reply land in a transcript it was not asked in?

vars == <<home, boot, screen, running, files, pointer, anchors, offer, ids, turns, launches,
          commands, madeIn, dropped, strayed, crossed, misplaced>>

counts    == <<ids, turns, launches, commands>>
histories == <<madeIn, dropped, strayed, crossed, misplaced>>

TypeOK ==
    /\ home \in Ids /\ boot \in Ids /\ ids \in Ids
    /\ screen \subseteq Turns /\ offer \subseteq Turns /\ dropped \subseteq Turns
    /\ running \in Turns \cup {Nothing} /\ turns \in Turns
    /\ files \in [Ids -> SUBSET Turns]
    /\ anchors \in [Ids -> SUBSET Turns]
    /\ pointer \in Ids
    /\ launches \in 1..MaxLaunches /\ commands \in 0..MaxCommands
    /\ madeIn \in [Turns -> Ids \cup {Nothing}]
    /\ strayed \in BOOLEAN /\ crossed \in BOOLEAN /\ misplaced \in BOOLEAN

\* An earlier launch left one session of one turn, and the pointer to it.
Init ==
    /\ home = 2 /\ boot = 2 /\ ids = 2
    /\ screen = {} /\ running = Nothing /\ turns = 1 /\ launches = 1 /\ commands = 0 /\ offer = {}
    /\ files = [s \in Ids |-> IF s = 1 THEN {1} ELSE {}]
    /\ anchors = [s \in Ids |-> IF s = 1 THEN {1} ELSE {}]
    /\ pointer = 1
    /\ madeIn = [t \in Turns |-> IF t = 1 THEN 1 ELSE Nothing]
    /\ dropped = {} /\ strayed = FALSE /\ crossed = FALSE /\ misplaced = FALSE

Fresh     == ids + 1                        \* the next session id
HasRoom   == ids < NumIds
Completed == {t \in Turns : madeIn[t] # Nothing}

----------------------------------------------------------------------------
(* Turns                                                                    *)

Submit ==
    /\ running = Nothing /\ turns < MaxTurns /\ offer = {}
    /\ turns' = turns + 1 /\ running' = turns + 1
    /\ screen' = screen \cup {turns + 1}
    /\ crossed' = FALSE
    /\ UNCHANGED <<home, boot, files, pointer, anchors, offer, ids, launches, commands, madeIn,
                   dropped, strayed, misplaced>>

\* The session the anchor of a completed turn is recorded under.
AnchoredIn == boot

TurnCompletes ==
    LET now == screen \cup {running}
    IN  /\ running # Nothing
        /\ running' = Nothing
        /\ screen' = now
        /\ files' = [files EXCEPT ![home] = now]
        /\ pointer' = home
        /\ anchors' = [anchors EXCEPT ![AnchoredIn] = @ \cup {running}]
        /\ madeIn' = [madeIn EXCEPT ![running] = home]
        /\ misplaced' = (misplaced \/ (running \notin screen /\ ~crossed))
        /\ UNCHANGED <<home, boot, offer, counts, dropped, strayed, crossed>>

\* A turn that failed or was cancelled saves nothing.
TurnBreaks ==
    /\ running # Nothing
    /\ running' = Nothing
    /\ UNCHANGED <<home, boot, screen, files, pointer, anchors, offer, counts, histories>>

----------------------------------------------------------------------------
(* Commands, refused by nothing but their own conditions while a turn runs  *)

Command ==
    /\ offer = {}
    /\ commands < MaxCommands /\ commands' = commands + 1

Replace(transcript) ==
    /\ screen' = transcript
    /\ crossed' = (crossed \/ running # Nothing)

\* /session resume
Resume(s) ==
    /\ Command /\ files[s] # {}
    /\ Replace(files[s])
    /\ home' = s /\ pointer' = s
    /\ UNCHANGED <<boot, running, files, anchors, offer, ids, turns, launches, madeIn, dropped, strayed, misplaced>>

\* /load and the session pickers: the transcript without its id
Load(s) ==
    /\ Command /\ files[s] # {}
    /\ Replace(files[s])
    /\ strayed' = (strayed \/ s # home)
    /\ UNCHANGED <<home, boot, running, files, pointer, anchors, offer, ids, turns, launches, madeIn, dropped, misplaced>>

\* /session fork
Fork ==
    /\ Command /\ HasRoom
    /\ ids' = Fresh /\ home' = Fresh /\ pointer' = Fresh
    /\ files' = [files EXCEPT ![Fresh] = screen]
    /\ UNCHANGED <<boot, screen, running, anchors, offer, turns, launches, histories>>

\* A save under a name of one's own choice, an old session's or a new one
Write(s) ==
    /\ Command /\ s <= Fresh
    /\ ids' = IF s = Fresh THEN s ELSE ids
    /\ files' = [files EXCEPT ![s] = screen]
    /\ dropped' = dropped \cup (files[s] \ screen)

\* /session save goes on under that name, /save does not
SaveAs(s) ==
    /\ Write(s)
    /\ home' = s
    /\ UNCHANGED <<boot, screen, running, pointer, anchors, offer, turns, launches, madeIn,
                   strayed, crossed, misplaced>>

Save(s) ==
    /\ Write(s)
    /\ UNCHANGED <<home, boot, screen, running, pointer, anchors, offer, turns, launches, madeIn,
                   strayed, crossed, misplaced>>

\* /session rename gives a session without a file one first
Rename ==
    /\ Command /\ files[home] = {}
    /\ files' = [files EXCEPT ![home] = screen]
    /\ UNCHANGED <<home, boot, screen, running, pointer, anchors, offer, ids, turns, launches, histories>>

\* /session delete
Delete(s) ==
    /\ Command /\ files[s] # {} /\ s # home
    /\ files' = [files EXCEPT ![s] = {}]
    /\ dropped' = dropped \cup files[s]
    /\ UNCHANGED <<home, boot, screen, running, pointer, anchors, offer, ids, turns, launches, madeIn,
                   strayed, crossed, misplaced>>

\* Variant: /clear does not ask whether a turn is running.
MayClear_Always == TRUE

\* /clear: a copy of what is on screen, then an empty screen
MayClear == running = Nothing

Copy == [files EXCEPT ![Fresh] = screen]

Clear ==
    /\ Command /\ MayClear
    /\ screen' = {}
    /\ IF screen = {}
       THEN /\ anchors' = [anchors EXCEPT ![home] = {}]
            /\ UNCHANGED <<files, ids>>
       ELSE /\ HasRoom /\ ids' = Fresh
            /\ files' = Copy
            /\ anchors' = [anchors EXCEPT ![Fresh] = anchors[home], ![home] = {}]
    /\ UNCHANGED <<home, boot, running, pointer, offer, turns, launches, histories>>

\* /reset
Reset ==
    /\ Command /\ screen # {}
    /\ Replace({})
    /\ strayed' = TRUE
    /\ UNCHANGED <<home, boot, running, files, pointer, anchors, offer, ids, turns, launches, madeIn, dropped, misplaced>>

----------------------------------------------------------------------------
(* Launches                                                                 *)

\* What the next launch begins with; `snapshot` is the recovery file it finds.
Relaunch(snapshot) ==
    /\ launches < MaxLaunches /\ HasRoom
    /\ launches' = launches + 1
    /\ ids' = Fresh /\ home' = Fresh /\ boot' = Fresh
    /\ screen' = {} /\ running' = Nothing
    /\ offer' = snapshot
    /\ UNCHANGED <<turns, commands, anchors, madeIn, dropped, crossed, misplaced>>

\* The recovery file is written once a minute.
Killed ==
    /\ offer = {}
    /\ \E snapshot \in {{}, screen} : Relaunch(snapshot)
    /\ UNCHANGED <<files, pointer, strayed>>

\* Exit starts the shutdown and does not wait for it: its last save, under the
\* id it was given when the launch began, may or may not be made.
Exit ==
    /\ offer = {}
    /\ Relaunch({})
    /\ \/ UNCHANGED <<files, pointer, strayed>>
       \/ /\ files' = [files EXCEPT ![boot] = screen]
          /\ pointer' = boot
          /\ strayed' = (strayed \/ home # boot)

\* Ctrl+R; any other key lets the offer go.
Restore ==
    /\ offer # {}
    /\ screen' = offer /\ offer' = {}
    /\ UNCHANGED <<home, boot, running, files, pointer, anchors, counts, histories>>

Discard ==
    /\ offer # {} /\ offer' = {}
    /\ UNCHANGED <<home, boot, screen, running, files, pointer, anchors, counts, histories>>

\* No property speaks of what follows once a transcript has strayed.
Next ==
    /\ ~strayed
    /\ \/ Submit \/ TurnCompletes \/ TurnBreaks
       \/ Fork \/ Rename \/ Clear \/ Reset
       \/ \E s \in Ids : Resume(s) \/ Load(s) \/ SaveAs(s) \/ Save(s) \/ Delete(s)
       \/ Killed \/ Exit \/ Restore \/ Discard

Spec == Init /\ [][Next]_vars

----------------------------------------------------------------------------
(* "Auto-save after every LLM turn so kills don't lose the session": a      *)
(* completed turn is in a saved session from then on, in every launch,      *)
(* unless its file was deleted or saved over on request, or a transcript    *)
(* was put under another session's id and saved there.                      *)
NothingLost ==
    strayed \/ \A t \in Completed \ dropped : \E s \in Ids : t \in files[s]

(* "so the next launch's resume last session reads the session actually in  *)
(* use": the session the pointer names holds every completed turn on screen.*)
PointerReaches ==
    strayed \/ (screen \cap Completed) \ dropped \subseteq files[pointer]

(* A reply lands in the transcript its question was asked in, whatever is   *)
(* typed meanwhile, unless the transcript was resumed, loaded or reset      *)
(* under the running turn; /clear is refused then.                          *)
RepliesLandHome == ~misplaced

(* "with the session id read live so a resume between turns anchors against *)
(* the session actually in use" (rewind-anchor-wiring.ts): a turn completed *)
(* in the session in use, and still on screen, can be rewound to in it, if  *)
(* the transcript was never replaced under it.                              *)
AnchorsFollow ==
    crossed \/ \A t \in screen : madeIn[t] = home => t \in anchors[home]
==============================================================================
