------------------------------ MODULE ReadSide ------------------------------
(***************************************************************************)
(* From the fact topics to the screen: the projector, the gateway's stream *)
(* hub and order query, and an order detail page.                          *)
(***************************************************************************)
EXTENDS OrderPage

vars == <<story, faults, projectorVars, hubVars, pageVars>>

TypeOK == ProjectorTypeOK /\ PageTypeOK

Init == ProjectorInit /\ HubInit /\ PageInit

projectorStep(A) == A /\ UNCHANGED <<story, hubVars, pageVars>>
pageStep(A) == A /\ UNCHANGED <<story, faults, projectorVars>>
pageFault(A) == A /\ fault /\ UNCHANGED <<story, projectorVars>>

(* The projector announces an update and the gateway hears of it, in whole *)
(* or in part; while no gateway is up there is nobody to hear.             *)
Announce(s) ==
  /\ PublishSignal(s)
  /\ IF story \in Watched THEN SignalArrives(announced(s)) ELSE UNCHANGED hubVars
  /\ UNCHANGED <<story, faults, pageVars>>

AnnounceFails(s) ==
  /\ story \in Watched
  /\ PublishSignal(s)
  /\ SignalLost(announced(s))
  /\ fault
  /\ UNCHANGED <<story, pageVars>>

Next ==
  \/ projectorStep(ProjectorNext)
  \/ \E s \in Service : Announce(s) \/ AnnounceFails(s)
  \/ pageStep(Load \/ Reload \/ Poll \/ Respond \/ OpenStream \/ HandleReady \/ HandleFrame
                \/ HandlePing \/ RetryConnection)
  \/ pageFault(StreamBreaks \/ StreamRefused \/ WindowForgets)
  \/ pageFault(story \in Watched /\ OtherOrderArrives /\ UNCHANGED pageVars)

Spec == Init /\ [][Next]_vars

(* Every process that is up goes on: the projector's consumers, the NATS   *)
(* subscriptions, the browser's timers, requests and events.  The user     *)
(* need not do anything once the page is loaded.                           *)
FairSpec ==
  /\ Spec
  /\ WF_vars(projectorStep(Boot)) /\ \A s \in Service : WF_vars(projectorStep(project(s)))
  /\ \A s \in Service : WF_vars(Announce(s))
  /\ WF_vars(pageStep(Load)) /\ WF_vars(pageStep(Poll)) /\ WF_vars(pageStep(Respond))
  /\ WF_vars(pageStep(OpenStream)) /\ WF_vars(pageStep(HandleReady \/ HandleFrame))

-----------------------------------------------------------------------------

(* What was written after a cursor: every frame of ours that is kept, once *)
(* and in order, and nothing older.                                        *)
carried(frames, written, from) ==
  LET content == {i \in DOMAIN written : written[i].event # "stream.ready"} IN
  /\ \A i \in content : written[i].cursor > from
  /\ \A i, j \in content : i < j => written[i].cursor < written[j].cursor
  /\ \A f \in ToSet(frames) : f.ours /\ f.cursor > from => \E i \in content : written[i] = f

(* R55: what the buffer holds beyond what the browser has handled is under *)
(* way to it, once and in order: reconnecting neither skips a frame nor    *)
(* sends one again.                                                        *)
StreamGapless == open => carried(buffer, pipe, larger(since, client.last))

(* D2: whatever facts, frames, connections and answers were lost or came   *)
(* late, the page ends up showing the status of the document, and, as long *)
(* as it polls, its timeline entry by entry.                               *)
ScreenCatchesUp == <>[](
  story \in Watched /\ cache.kind # "failed" /\ document # NoDocument =>
    /\ cache.kind = "ready"
    /\ cache.status = document.status
    /\ timer => cache.events = document.events)

(* Inductive: TypeOK and StreamGapless with what they rest on.             *)
ReadSideInv == ProjectorInv /\ HubInv /\ PageInv /\ StreamGapless

=============================================================================
