---------------------------- MODULE DrainSession ----------------------------
(***************************************************************************)
(* gossipv1.DrainSession, the budgets of one client session, as a value:   *)
(* an operator takes the state and yields the next one.                    *)
(*                                                                         *)
(* Only the sum of the bytes sent and received is ever compared, so only   *)
(* the sum is kept.  A budget of 0 is no budget.                           *)
(***************************************************************************)
EXTENDS SessionAdapter

CONSTANTS RoundBudget, ByteBudget,
          NoProgressRoundCap,
          YieldEveryNRounds,   \* 0 also when fairness yields are disabled
          WallClockBudget,     \* is there one?
          FrameBytes           \* the size of a frame of each type

\* Normalize: a negative limit is 0.
ASSUME LimitAssumption == /\ RoundBudget \in Nat /\ ByteBudget \in Nat
                          /\ NoProgressRoundCap \in Nat /\ YieldEveryNRounds \in Nat
                          /\ WallClockBudget \in BOOLEAN
                          /\ FrameBytes \in [FrameTypes -> Nat \ {0}]

None == "none"

StopReasons == {None, "repeated_no_progress", "time_budget", "byte_budget", "round_budget",
                "client_disconnect", "client_silence", "fairness_yield", "protocol_fatal",
                "storage_error", "transport_backpressure"}

DrainStates == [rounds : Nat, streak : Nat, bytes : Nat, timeUp : BOOLEAN,
                reason : StopReasons]

NewDrainSession ==
    [rounds |-> 0, streak |-> 0, bytes |-> 0, timeUp |-> FALSE, reason |-> None]

-----------------------------------------------------------------------------
\* stopReasonForBudgetExceeded: the first reason stays.
CheckBudgets(d) ==
    LET exceeded == IF RoundBudget > 0 /\ d.rounds >= RoundBudget    THEN "round_budget"
                    ELSE IF WallClockBudget /\ d.timeUp              THEN "time_budget"
                    ELSE IF ByteBudget > 0 /\ d.bytes >= ByteBudget  THEN "byte_budget"
                    ELSE None
    IN  [d EXCEPT !.reason = IF d.reason = None THEN exceeded ELSE d.reason]

\* RecordBytesSent and RecordBytesReceived.
RecordBytes(d, n) == CheckBudgets([d EXCEPT !.bytes = @ + n])

\* Mutant: only the budget already used up is looked at, not the frame about to be sent.
CanSendBytesLate(d, n) == CheckBudgets(d)

\* A frame that would reach the budget stops the session before it is queued.
CanSendBytes(d, n) ==
    LET checked == CheckBudgets(d)
    IN  IF checked.reason = None /\ ByteBudget > 0 /\ d.bytes + n >= ByteBudget
          THEN [checked EXCEPT !.reason = "byte_budget"]
          ELSE checked

CompleteRound(d, progressed) ==
    [d EXCEPT !.rounds = @ + 1, !.streak = IF progressed THEN 0 ELSE @ + 1]

\* Mutant: a session yields before its first round.
CanStartFirstRoundNot(d) ==
    LET checked == CheckBudgets(d)
        yields  == YieldEveryNRounds > 0 /\ d.rounds % YieldEveryNRounds = 0
    IN  [checked EXCEPT !.reason = IF checked.reason # None THEN checked.reason
                                   ELSE IF yields THEN "fairness_yield"
                                   ELSE None]

CanStartAnotherRound(d) ==
    LET checked == CheckBudgets(d)
        stalled == NoProgressRoundCap > 0 /\ d.streak >= NoProgressRoundCap
        yields  == /\ YieldEveryNRounds > 0
                   /\ d.rounds > 0
                   /\ d.rounds % YieldEveryNRounds = 0
    IN  [checked EXCEPT !.reason = IF checked.reason # None THEN checked.reason
                                   ELSE IF stalled THEN "repeated_no_progress"
                                   ELSE IF yields  THEN "fairness_yield"
                                   ELSE None]

Stop(d, reason) == IF d.reason = None THEN [d EXCEPT !.reason = reason] ELSE d

=============================================================================
