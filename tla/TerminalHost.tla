---------------------------- MODULE TerminalHost ----------------------------
(***************************************************************************)
(* packages/terminal-engine: the output of the terminals of one pty host,   *)
(* from the PTYs to the main process, and its acknowledgements back         *)
(* (pty-host.ts, pty-handle.ts, batcher.ts, flow-control.ts, and the        *)
(* forwarding in electron/server/runtime.ts).                               *)
(*                                                                         *)
(* A PTY has one switch, on or paused.  Three hands turn it: the terminal's *)
(* flow control, by what the main process has not acknowledged; the         *)
(* backpressure of the host's stdout, for all subscribed terminals at once; *)
(* and the reset of an unsubscribe or an exit.  None asks what the others   *)
(* want.                                                                   *)
(*                                                                         *)
(* Output is counted in chunks.  Whether a write fills stdout is not known, *)
(* so each one may.  Input, sizes, snapshots and scrollback are left out.   *)
(***************************************************************************)
EXTENDS Integers, Sequences

CONSTANTS Terminals,
          High, Low,  \* the water marks, in chunks
          MaxChunks   \* bound: chunks of output

ASSUME TerminalAssumption ==
    High \in Nat /\ Low \in Nat \ {0} /\ Low <= High + 1 /\ MaxChunks \in Nat

VARIABLES pty,        \* each process: none, live, exited, or destroyed and then gone
          subscribed, \* subscribedTerminals
          pending,    \* callbackPending of each handle
          batch,      \* chunks the batcher holds
          flow,       \* the switches and who turned them, see Init
          stdout,     \* frames the main process has not read
          acks,       \* acknowledgements the host has not read
          produced,   \* for the bound
          drained,    \* history: terminals a drain let go above their high mark
          stranded    \* history: terminals unsubscribed while backpressure paused them

vars == <<pty, subscribed, pending, batch, flow, stdout, acks, produced, drained, stranded>>

Frame(t, n) == [terminal |-> t, chunks |-> n]

(* flow: the paused PTYs; the FlowControllers' unackedBytes, and those that *)
(* are _paused; anyPtyPaused; and whether stdout owes a drain.              *)
Init ==
    /\ pty = [t \in Terminals |-> "none"] /\ subscribed = {}
    /\ pending = [t \in Terminals |-> 0] /\ batch = [t \in Terminals |-> 0]
    /\ flow = [paused |-> {}, unacked |-> [t \in Terminals |-> 0], held |-> {},
               blocked |-> FALSE, due |-> FALSE]
    /\ stdout = <<>> /\ acks = <<>> /\ produced = 0 /\ drained = {} /\ stranded = {}

-----------------------------------------------------------------------------
(* The terminal has its entry in handles and flowControllers. *)
Known(t) == pty[t] \in {"live", "exited"}

SubscribedPtys == {t \in subscribed : Known(t)}

(* Mutant: the mark is looked at before the chunks are counted. *)
SentLate(f, t, n) ==
    IF f.unacked[t] > High /\ t \notin f.held
    THEN [f EXCEPT !.unacked[t] = @ + n, !.held = @ \cup {t}, !.paused = @ \cup {t}]
    ELSE [f EXCEPT !.unacked[t] = @ + n]

(* FlowController.sent *)
Sent(f, t, n) ==
    IF f.unacked[t] + n > High /\ t \notin f.held
    THEN [f EXCEPT !.unacked[t] = @ + n, !.held = @ \cup {t}, !.paused = @ \cup {t}]
    ELSE [f EXCEPT !.unacked[t] = @ + n]

(* pauseAllSubscribedPtys, after a write that filled stdout. *)
PausedAll(f) ==
    [f EXCEPT !.due = TRUE, !.blocked = TRUE,
              !.paused = IF f.blocked THEN @ ELSE @ \cup SubscribedPtys]

(* The batcher's onFlush of n chunks: nobody but a subscriber gets them.    *)
Flushed(t, n, full) ==
    IF n = 0 \/ t \notin subscribed THEN flow
    ELSE IF full THEN PausedAll(Sent(flow, t, n)) ELSE Sent(flow, t, n)

FlushFrames(t, n) == IF n = 0 \/ t \notin subscribed THEN <<>> ELSE <<Frame(t, n)>>

(* Mutant: reset() forgets the PTY it paused. *)
ResetForgetting(f, t) == [f EXCEPT !.unacked[t] = 0, !.held = @ \ {t}]

(* FlowController.reset: it resumes only what it paused itself. *)
Reset(f, t) ==
    [f EXCEPT !.unacked[t] = 0, !.held = @ \ {t},
              !.paused = IF t \in f.held THEN @ \ {t} ELSE @]

(* FlowController.ack *)
Acked(f, t, n) ==
    LET left == IF f.unacked[t] > n THEN f.unacked[t] - n ELSE 0
    IN IF t \in f.held /\ left < Low
       THEN [f EXCEPT !.unacked[t] = left, !.held = @ \ {t}, !.paused = @ \ {t}]
       ELSE [f EXCEPT !.unacked[t] = left]

-----------------------------------------------------------------------------
Create(t) ==
    /\ pty[t] = "none" /\ pty' = [pty EXCEPT ![t] = "live"]
    /\ UNCHANGED <<subscribed, pending, batch, flow, stdout, acks, produced, drained, stranded>>

Subscribe(t) ==
    /\ Known(t) /\ t \notin subscribed /\ subscribed' = subscribed \cup {t}
    /\ UNCHANGED <<pty, pending, batch, flow, stdout, acks, produced, drained, stranded>>

Unsubscribe(t) ==
    /\ t \in subscribed /\ subscribed' = subscribed \ {t}
    /\ flow' = Reset(flow, t)
    /\ drained' = drained \ {t}
    /\ stranded' = IF t \in flow.paused \ flow.held THEN stranded \cup {t} ELSE stranded
    /\ UNCHANGED <<pty, pending, batch, stdout, acks, produced>>

(* The process is killed, and dies later. *)
Destroy(t) ==
    /\ Known(t)
    /\ pty' = [pty EXCEPT ![t] = IF @ = "live" THEN "destroyed" ELSE "gone"]
    /\ batch' = [batch EXCEPT ![t] = 0] /\ subscribed' = subscribed \ {t}
    /\ UNCHANGED <<pending, flow, stdout, acks, produced, drained, stranded>>

(* A chunk is read from the PTY; it is dispatched in a later turn. *)
Reads(t) ==
    /\ pty[t] \in {"live", "destroyed"} /\ t \notin flow.paused
    /\ produced < MaxChunks /\ produced' = produced + 1
    /\ pending' = [pending EXCEPT ![t] = @ + 1]
    /\ UNCHANGED <<pty, subscribed, batch, flow, stdout, acks, drained, stranded>>

FlushCallbacks(t) ==
    /\ pending[t] > 0 /\ pending' = [pending EXCEPT ![t] = 0]
    /\ batch' = IF t \in subscribed THEN [batch EXCEPT ![t] = @ + pending[t]] ELSE batch
    /\ UNCHANGED <<pty, subscribed, flow, stdout, acks, produced, drained, stranded>>

(* By its timer or by its size. *)
FlushBatch(t) ==
    /\ batch[t] > 0 /\ batch' = [batch EXCEPT ![t] = 0]
    /\ \E full \in BOOLEAN : flow' = Flushed(t, batch[t], full)
    /\ stdout' = stdout \o FlushFrames(t, batch[t])
    /\ UNCHANGED <<pty, subscribed, pending, acks, produced, drained, stranded>>

(* The process exits: the batch, a reset, and the exit frame, which is not  *)
(* followed further.  What was not dispatched yet comes after it.          *)
Exits(t) ==
    /\ pty[t] \in {"live", "destroyed"}
    /\ pty' = [pty EXCEPT ![t] = IF @ = "live" THEN "exited" ELSE "gone"]
    /\ batch' = [batch EXCEPT ![t] = 0]
    /\ stdout' = stdout \o FlushFrames(t, batch[t])
    /\ \E full, fuller \in BOOLEAN :
         LET f == Reset(Flushed(t, batch[t], full), t)
         IN flow' = [f EXCEPT !.due = @ \/ fuller]
    /\ drained' = drained \ {t}
    /\ UNCHANGED <<subscribed, pending, acks, produced, stranded>>

-----------------------------------------------------------------------------
ResumedAll(f, freed) == [f EXCEPT !.due = FALSE, !.blocked = FALSE, !.paused = @ \ freed]

(* stdout's drain: resumeAllSubscribedPtys, of those subscribed now. *)
Drain ==
    LET freed == IF flow.blocked THEN SubscribedPtys ELSE {}
    IN /\ flow.due
       /\ flow' = ResumedAll(flow, freed)
       /\ drained' = drained \cup (freed \cap flow.held)
       /\ UNCHANGED <<pty, subscribed, pending, batch, stdout, acks, produced, stranded>>

(* The main process forwards a frame and acknowledges its chunks at once. *)
MainReads ==
    /\ stdout # <<>> /\ stdout' = Tail(stdout)
    /\ acks' = Append(acks, Head(stdout))
    /\ UNCHANGED <<pty, subscribed, pending, batch, flow, produced, drained, stranded>>

HostAcks ==
    LET t == Head(acks).terminal
    IN /\ acks # <<>> /\ acks' = Tail(acks)
       /\ flow' = IF Known(t) THEN Acked(flow, t, Head(acks).chunks) ELSE flow
       /\ drained' = drained \cap flow'.held
       /\ UNCHANGED <<pty, subscribed, pending, batch, stdout, produced, stranded>>

Next ==
    \/ Drain \/ MainReads \/ HostAcks
    \/ \E t \in Terminals : \/ Create(t) \/ Subscribe(t) \/ Unsubscribe(t) \/ Destroy(t)
                            \/ Reads(t) \/ FlushCallbacks(t) \/ FlushBatch(t) \/ Exits(t)

(* Pipes are read, and a write that was refused is followed by a drain. *)
Fairness ==
    /\ WF_vars(Drain) /\ WF_vars(MainReads) /\ WF_vars(HostAcks)
    /\ \A t \in Terminals : WF_vars(FlushCallbacks(t)) /\ WF_vars(FlushBatch(t))

Spec == Init /\ [][Next]_vars
FairSpec == Spec /\ Fairness
-----------------------------------------------------------------------------
(* Properties. *)

(* Types of the state; only a terminal the host knows is subscribed, and    *)
(* what backpressure blocked waits for a drain that is due.                 *)
TypeOK ==
    /\ pty \in [Terminals -> {"none", "live", "exited", "destroyed", "gone"}]
    /\ subscribed \subseteq {t \in Terminals : Known(t)}
    /\ pending \in [Terminals -> Nat] /\ batch \in [Terminals -> Nat]
    /\ flow \in [paused : SUBSET Terminals, unacked : [Terminals -> Nat],
                 held : SUBSET Terminals, blocked : BOOLEAN, due : BOOLEAN]
    /\ flow.blocked => flow.due
    /\ stdout \in Seq([terminal : Terminals, chunks : Nat])
    /\ acks \in Seq([terminal : Terminals, chunks : Nat])
    /\ produced \in 0 .. MaxChunks /\ drained \subseteq Terminals /\ stranded \subseteq Terminals

(* "When unacked bytes cross the high watermark, we pause the underlying    *)
(* node-pty stream" (flow-control.ts): a live terminal above its mark does  *)
(* not read, whoever else turned its switch - unless a drain turned it on,  *)
(* which it does for all.                                                  *)
OverHighIsPaused ==
    \A t \in Terminals : pty[t] = "live" /\ flow.unacked[t] > High => t \in flow.paused \cup drained

(* Without an ack "the terminal freezes" (runtime.ts): a subscribed         *)
(* terminal that is paused reads again, by an ack, a drain or a reset; but  *)
(* for one unsubscribed while backpressure had it paused, which no drain    *)
(* finds.                                                                  *)
KeepsFlowing ==
    \A t \in Terminals : pty[t] = "live" /\ t \in subscribed /\ t \in flow.paused ~>
        pty[t] # "live" \/ t \notin subscribed \/ t \notin flow.paused \/ t \in stranded
=============================================================================
