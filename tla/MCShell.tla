------------------------------- MODULE MCShell -------------------------------
(* The parts of Shell, checked one at a time in one run: `part` says which  *)
(* of them moves.  README section 4 says why the constants are enough.      *)
EXTENDS Shell

CONSTANTS l1, l2, b1, b2, m1, m2, m3, s1, s2, p1, p2, background, foreground

LocalAsks     == {l1, l2}
BrokeredAsks  == {b1, b2}
ThreeMessages == {m1, m2, m3}
TwoStreams    == {s1, s2}
TwoPulls      == {p1, p2}
TwoSlots      == {background, foreground}
NoStream      == [s \in Occasions |-> 0]

cardVars     == vars
activityVars == <<place, interrupted, overlapping, isThinking, owned>>
framesVars   == <<running, call, pieces, stage, tools, pending, said, accumulated, streaming,
                  pendingToolCalls, usage, turnText, finished, block, entries>>
streamVars   == <<log, queue, pc, feed, position, rendering, bound, shown, ended, breaks, mishaps>>
nudgeVars    == <<offered, moves, enabled, asked, answers, ledger, told, stale, crosswise, repeated>>
paletteVars  == <<reader, replies, attached>>
sessionVars  == <<home, boot, screen, asking, files, pointer, anchors, offer, ids, turns, launches,
                  commands, madeIn, discarded, strayed, replaced, misplaced>>
treeVars     == <<items, agent, folded, clock>>
screenVars   == <<transcript, placeholder, width, kept, view, mixed, shortened>>

PartsInit ==
    /\ part \in {"card", "activity", "frames", "stream", "nudge", "palette", "session", "tree",
                 "screen"}
    /\ Init /\ Activity!Init
    /\ Frames!Init  /\ (part = "frames" \/ running)
    /\ Stream!Init
    /\ Nudge!Init   /\ (part = "nudge" \/ offered = NoStream)
    /\ Palette!Init /\ (part = "palette" \/ attached)
    /\ Session!Init /\ Tree!Init
    /\ Screen!Init  /\ (part = "screen" \/ width = 1)

otherThanCard ==
    <<part, activityVars, framesVars, streamVars, nudgeVars, paletteVars, sessionVars, treeVars, screenVars>>
otherThanActivity ==
    <<part, cardVars, framesVars, streamVars, nudgeVars, paletteVars, sessionVars, treeVars, screenVars>>
otherThanFrames ==
    <<part, cardVars, activityVars, streamVars, nudgeVars, paletteVars, sessionVars, treeVars, screenVars>>
otherThanStream ==
    <<part, cardVars, activityVars, framesVars, nudgeVars, paletteVars, sessionVars, treeVars, screenVars>>
otherThanNudge ==
    <<part, cardVars, activityVars, framesVars, streamVars, paletteVars, sessionVars, treeVars, screenVars>>
otherThanPalette ==
    <<part, cardVars, activityVars, framesVars, streamVars, nudgeVars, sessionVars, treeVars, screenVars>>
otherThanSession ==
    <<part, cardVars, activityVars, framesVars, streamVars, nudgeVars, paletteVars, treeVars, screenVars>>
otherThanTree ==
    <<part, cardVars, activityVars, framesVars, streamVars, nudgeVars, paletteVars, sessionVars, screenVars>>
otherThanScreen ==
    <<part, cardVars, activityVars, framesVars, streamVars, nudgeVars, paletteVars, sessionVars, treeVars>>
allVars == <<cardVars, otherThanCard>>

PartsNext ==
    \/ part = "card"     /\ Next          /\ UNCHANGED otherThanCard
    \/ part = "activity" /\ Activity!Next /\ UNCHANGED otherThanActivity
    \/ part = "frames"   /\ Frames!Next   /\ UNCHANGED otherThanFrames
    \/ part = "stream"   /\ Stream!Next   /\ UNCHANGED otherThanStream
    \/ part = "nudge"    /\ Nudge!Next    /\ UNCHANGED otherThanNudge
    \/ part = "palette"  /\ Palette!Next  /\ UNCHANGED otherThanPalette
    \/ part = "session"  /\ Session!Next  /\ UNCHANGED otherThanSession
    \/ part = "tree"     /\ Tree!Next     /\ UNCHANGED otherThanTree
    \/ part = "screen"   /\ Screen!Next   /\ UNCHANGED otherThanScreen

PartsSpec == PartsInit /\ [][PartsNext]_allVars

\* Each part's own fairness, while it is the one that moves.
PartsFairSpec ==
    /\ PartsSpec
    /\ WF_streamVars(part = "stream" /\ Stream!Proceeds)
    /\ WF_paletteVars(part = "palette" /\ Palette!Proceeds)

----------------------------------------------------------------------------
(* The types of the parts, and what they come to.                           *)

PartsTypeOK ==
    /\ part = "card" => TypeOK
    /\ part = "activity" => Activity!TypeOK
    /\ part = "frames" => Frames!TypeOK
    /\ part = "stream" => Stream!TypeOK
    /\ part = "nudge" => Nudge!TypeOK
    /\ part = "palette" => Palette!TypeOK
    /\ part = "session" => Session!TypeOK
    /\ part = "tree" => Tree!TypeOK
    /\ part = "screen" => Screen!TypeOK

\* A turn sent to the daemon is reported over to who waits for it, and the terminal is
\* asked until it answers.
EverythingSettles ==
    /\ Stream!EveryTurnSettles
    /\ part = "palette" => Palette!AsksUntilAnswered
=============================================================================
