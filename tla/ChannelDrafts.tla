--------------------------- MODULE ChannelDrafts ---------------------------
(***************************************************************************)
(* Drafts of channel messages: agent/channel-draft.ts, and the two handlers *)
(* of tools/agent-harness-comms.ts that save and send them.  The daemon's  *)
(* store is the one of record and is offered each draft first; a file here *)
(* mirrors it, and holds what the daemon would not take.  Several agents   *)
(* share the file, and each reads it before it asks the daemon and writes  *)
(* it after.                                                               *)
(***************************************************************************)
EXTENDS Integers, Sequences

CONSTANTS
    Callers,     \* agents on one home directory, one call each at a time
    NumIds,      \* bound: drafts ever made
    MaxCalls,    \* bound: saves and sends in all
    DraftLimit   \* DRAFT_LIMIT: 200 in the code

Ids      == 1..NumIds
Texts    == 1..MaxCalls
Statuses == {"draft", "queued", "sent", "failed"}
Drafts   == [id : Ids, text : Texts, status : Statuses, synced : BOOLEAN]

VARIABLES
    mirror,      \* drafts.json, the newest first
    held,        \* the text the daemon has of each draft; 0 for none
    calls,       \* the call each agent is in
    began, made, \* calls begun, ids used
    composed,    \* the draft of each text, in the order they were composed
    arrived,     \* how often each text reached its channel: never, once, more
    kept,        \* the last text of each draft whose save was reported (history)
    exposed,     \* drafts two calls worked on at once, or wrote over (history)
    evicted,     \* drafts that fell off the end (history)
    revised,     \* drafts composed anew after they were sent (history)
    brokenOff,   \* drafts an agent died on (history)
    unheard      \* texts that went out and nobody was told (history)

histories == <<kept, exposed, evicted, revised, brokenOff, unheard>>
vars      == <<mirror, held, calls, began, made, composed, arrived, histories>>

Idle      == [stage |-> "idle", id |-> 0, text |-> 0, status |-> "draft", sends |-> FALSE,
              base |-> <<>>]
Busy(c)   == calls[c].stage # "idle"
AtStage(c, s) == calls[c].stage = s
Stages    == {"offering", "taken", "refused", "delivering", "delivered"}

Held(file)      == {file[i].id : i \in DOMAIN file}
Entry(file, id) == {file[i] : i \in {j \in DOMAIN file : file[j].id = id}}

TypeOK ==
    /\ \A i \in DOMAIN mirror : mirror[i] \in Drafts
    /\ Len(mirror) <= DraftLimit
    /\ held \in [Ids -> 0..MaxCalls]
    /\ \A c \in Callers :
         \/ calls[c] = Idle
         \/ /\ calls[c].stage \in Stages /\ calls[c].id \in Ids /\ calls[c].text \in Texts
            /\ calls[c].status \in Statuses
    /\ made \in 0..NumIds
    /\ Len(composed) <= began /\ began <= MaxCalls /\ \A t \in DOMAIN composed : composed[t] \in Ids
    /\ arrived \in [Texts -> 0..2] /\ kept \in [Ids -> 0..MaxCalls]
    /\ exposed \cup evicted \cup revised \cup brokenOff \subseteq Ids
    /\ unheard \subseteq Texts

Init ==
    /\ mirror = <<>> /\ held = [i \in Ids |-> 0]
    /\ calls = [c \in Callers |-> Idle]
    /\ began = 0 /\ made = 0 /\ composed = <<>>
    /\ arrived = [t \in Texts |-> 0] /\ kept = [i \in Ids |-> 0]
    /\ exposed = {} /\ evicted = {} /\ revised = {} /\ brokenOff = {} /\ unheard = {}

Shared(c, id) == \E k \in Callers \ {c} : calls[k].id = id

\* saveDraft() up to the offer: the file is read, and the draft put together from it.
Offer(c, id, text, status, sends) ==
    /\ ~Busy(c) /\ began < MaxCalls /\ began' = began + 1
    /\ calls' = [calls EXCEPT ![c] = [stage |-> "offering", id |-> id, text |-> text,
                                      status |-> status, sends |-> sends, base |-> mirror]]
    /\ exposed' = IF Shared(c, id) THEN exposed \cup {id} ELSE exposed
    /\ UNCHANGED <<mirror, held, arrived, kept, evicted, brokenOff, unheard>>

\* channelDraftSaveHandoff().  A draft of the mirror keeps its id and its status; any
\* other is new, one listed from the daemon's store among them.
ComposeNew(c) ==
    /\ made < NumIds
    /\ made' = made + 1 /\ composed' = Append(composed, made')
    /\ Offer(c, made', Len(composed'), "draft", FALSE)
    /\ UNCHANGED revised

ComposeAgain(c) ==
    /\ \E i \in DOMAIN mirror :
         /\ composed' = Append(composed, mirror[i].id)
         /\ Offer(c, mirror[i].id, Len(composed'), mirror[i].status, FALSE)
         /\ revised' = IF mirror[i].status = "sent" THEN revised \cup {mirror[i].id} ELSE revised
    /\ UNCHANGED made

\* queueDraftToSend() refuses a draft that is not here, and one that was sent.
MaySend_Always(draft) == TRUE   \* Variant: or does not look.
MaySend(draft) == draft.status # "sent"

\* channelDraftSendHandoff() until the daemon has answered the save of the queued draft.
Queue(c) ==
    /\ \E i \in DOMAIN mirror :
         MaySend(mirror[i]) /\ Offer(c, mirror[i].id, mirror[i].text, "queued", TRUE)
    /\ UNCHANGED <<made, composed, revised>>

Becomes(c, stage) == calls' = [calls EXCEPT ![c].stage = stage]

\* External: the daemon stores the draft; the reply may still fail.
Takes(c) ==
    /\ AtStage(c, "offering")
    /\ held' = [held EXCEPT ![calls[c].id] = calls[c].text]
    /\ Becomes(c, "taken") \/ Becomes(c, "refused")
    /\ UNCHANGED <<mirror, began, made, composed, arrived, histories>>

\* Every failure is a value: refused, not reached, no token, no transport to ask with.
Refuses(c) ==
    /\ AtStage(c, "offering") /\ Becomes(c, "refused")
    /\ UNCHANGED <<mirror, held, began, made, composed, arrived, histories>>

\* withDraftSyncOutcome().  Variant: the earlier answer is carried over from the file.
Outcome_Carried(c) ==
    AtStage(c, "taken") \/ \E d \in Entry(calls[c].base, calls[c].id) : d.synced
Outcome(c) == AtStage(c, "taken")

Saved(c) == [id |-> calls[c].id, text |-> calls[c].text, status |-> calls[c].status,
             synced |-> Outcome(c)]

\* The file as it was read, with the draft in its place or in front.
Placed(c) ==
    LET base == calls[c].base
    IN IF calls[c].id \in Held(base)
       THEN [i \in DOMAIN base |-> IF base[i].id = calls[c].id THEN Saved(c) ELSE base[i]]
       ELSE <<Saved(c)>> \o base

\* writeDrafts(), and what follows it: the report of a save, or the delivery.
Write(c) ==
    LET placed == Placed(c)
        base   == calls[c].base
    IN /\ AtStage(c, "taken") \/ AtStage(c, "refused")
       /\ mirror' = SubSeq(placed, 1, IF Len(placed) > DraftLimit THEN DraftLimit ELSE Len(placed))
       /\ exposed' = exposed \cup {id \in Ids : Entry(base, id) # Entry(mirror, id)}
       /\ evicted' = evicted \cup (Held(placed) \ Held(mirror'))
       /\ kept' = [kept EXCEPT ![calls[c].id] = calls[c].text]
       /\ calls' = [calls EXCEPT ![c] = IF @.sends THEN [@ EXCEPT !.stage = "delivering",
                                                                  !.base = <<>>]
                                        ELSE Idle]
       /\ UNCHANGED <<held, began, made, composed, arrived, revised, brokenOff, unheard>>

\* markDraftSent(), markDraftFailed(): the file is read and written at once; a draft that
\* is no longer there throws, which the handler swallows.  The daemon is not told.
Mark(c, status) ==
    /\ mirror' = [i \in DOMAIN mirror |-> IF mirror[i].id = calls[c].id
                                          THEN [mirror[i] EXCEPT !.status = status]
                                          ELSE mirror[i]]
    /\ calls' = [calls EXCEPT ![c] = Idle]
    /\ UNCHANGED <<held, began, made, composed, kept, exposed, evicted, revised, brokenOff>>

\* deliverAgentChannelMessage() reaches the channel,
Delivers(c) ==
    /\ AtStage(c, "delivering") /\ Becomes(c, "delivered")
    /\ arrived' = [arrived EXCEPT ![calls[c].text] = IF @ = 0 THEN 1 ELSE 2]
    /\ UNCHANGED <<mirror, held, began, made, composed, histories>>

Confirmed(c) == AtStage(c, "delivered") /\ Mark(c, "sent") /\ UNCHANGED <<arrived, unheard>>

\* or reaches it and its answer fails,
Unconfirmed(c) ==
    /\ AtStage(c, "delivered") /\ Mark(c, "failed")
    /\ unheard' = unheard \cup {calls[c].text}
    /\ UNCHANGED arrived

\* or throws before: no target, card material, a strategy that failed.
DeliveryFails(c) ==
    AtStage(c, "delivering") /\ Mark(c, "failed") /\ UNCHANGED <<arrived, unheard>>

Crash(c) ==
    /\ Busy(c) /\ calls' = [calls EXCEPT ![c] = Idle]
    /\ brokenOff' = brokenOff \cup {calls[c].id}
    /\ unheard' = IF AtStage(c, "delivered") THEN unheard \cup {calls[c].text} ELSE unheard
    /\ UNCHANGED <<mirror, held, began, made, composed, arrived, kept, exposed, evicted, revised>>

Next ==
    \E c \in Callers :
        \/ ComposeNew(c) \/ ComposeAgain(c) \/ Queue(c)
        \/ Takes(c) \/ Refuses(c) \/ Write(c)
        \/ Delivers(c) \/ Confirmed(c) \/ Unconfirmed(c) \/ DeliveryFails(c)
        \/ Crash(c)

Spec == Init /\ [][Next]_vars

----------------------------------------------------------------------------
(* Two calls on the file at once write over each other, which the header   *)
(* of the file does not speak of: `exposed`.                               *)

\* A composition whose save was reported is not lost to a daemon that would not take it,
\* nor to anything else that happens to other drafts: "losing it because a peer was busy
\* would be worse than holding it".  Left out: the oldest, once there are too many.
CompositionKept ==
    \A id \in Ids \ (exposed \cup evicted) :
        kept[id] # 0 => \E d \in Entry(mirror, id) : d.text = kept[id]

\* "Whether the daemon's store holds this draft, so other surfaces see it": the text that
\* is marked so is the one they see.
SyncedIsHeld ==
    \A i \in DOMAIN mirror :
        mirror[i].synced /\ mirror[i].id \notin exposed \cup brokenOff
                         /\ (\A c \in Callers : calls[c].id # mirror[i].id)
            => held[mirror[i].id] = mirror[i].text

\* A message reaches its channel once, however often its sending failed, was broken off
\* and tried again; unless it arrived and the sender never heard.
SentOnce ==
    \A t \in DOMAIN composed :
        arrived[t] <= 1 \/ t \in unheard \/ composed[t] \in exposed

\* What the mirror calls sent went out, and what it calls failed did not.  Left out: a
\* draft composed anew after it was sent, which stays "sent" with its new text.
StatusIsTrue ==
    \A i \in DOMAIN mirror :
        mirror[i].id \notin exposed \cup revised =>
            /\ mirror[i].status = "sent" => arrived[mirror[i].text] # 0
            /\ mirror[i].status = "failed" =>
                   arrived[mirror[i].text] = 0 \/ mirror[i].text \in unheard

DraftsAreKept == CompositionKept /\ SyncedIsHeld /\ SentOnce /\ StatusIsTrue
============================================================================
