---------------------------- MODULE ConnectionPool ----------------------------
(***************************************************************************)
(* The pool of one connection that every request shares (SetMaxOpenConns), *)
(* and how a caller goes through it: statements give the connection back   *)
(* one by one, a transaction keeps it.  A freed connection goes to any of  *)
(* those who wait, at random.  The router gives a request 60 seconds,      *)
(* after which database/sql rolls its transaction back and ends its waits; *)
(* the scheduler and a few lists ask without a deadline.                   *)
(*                                                                         *)
(* The update of a rack that has a change note but neither label nor place *)
(* loads the rack's name through the pool, while its transaction holds the *)
(* connection.                                                             *)
(***************************************************************************)
EXTENDS Naturals

CONSTANTS
    Caller,     \* goroutines that use the database at the same time
    MaxPieces,  \* statements and transactions one call takes at most
    NoOne

ASSUME ConnectionPoolAssumption == NoOne \notin Caller /\ MaxPieces \in Nat \ {0}

VARIABLES
    conn,  \* who has the connection
    call   \* what each caller is at

poolVars == <<conn, call>>

Work == {"statements", "unhurried", "transaction", "noted"}
CallStep == {"ended", "asks", "holds", "asksAgain", "late"}
Call == [step : CallStep, work : Work, left : 0..MaxPieces, expired : BOOLEAN]
Ended == [step |-> "ended", work |-> "statements", left |-> 0, expired |-> FALSE]

Stands(c, steps) == call[c].step \in steps
Goes(c, step) == call' = [call EXCEPT ![c].step = step]
Ends(c) == call' = [call EXCEPT ![c] = Ended]
Frees(c) == conn' = IF conn = c THEN NoOne ELSE conn

-----------------------------------------------------------------------------
PoolInit ==
    /\ conn = NoOne
    /\ call = [c \in Caller |-> Ended]

\* A save is one transaction, anything else a few statements.
Arrive(c, work, n) ==
    /\ Stands(c, {"ended"})
    /\ work \in {"transaction", "noted"} => n = 1
    /\ call' = [call EXCEPT ![c] = [step |-> "asks", work |-> work, left |-> n, expired |-> FALSE]]
    /\ UNCHANGED conn

\* The name that is asked for after its transaction is gone comes to nothing.
GetConnection(c) ==
    /\ conn = NoOne
    /\ Stands(c, {"asks", "asksAgain"})
    /\ conn' = c
    /\ Goes(c, IF Stands(c, {"asks"}) THEN "holds" ELSE "late")

\* A statement is answered, a transaction commits or rolls back; after an error
\* the handler returns.
FinishPiece(c) ==
    /\ Stands(c, {"holds"})
    /\ conn' = NoOne
    /\ \/ Ends(c)
       \/ /\ call[c].left > 1
          /\ call' = [call EXCEPT ![c].step = "asks", ![c].left = @ - 1]

\* RackWorkflow.Update, in rackName: LoadRackName is given the pool, not tx.
LoadRackName(c) ==
    /\ Stands(c, {"holds"})
    /\ call[c].work = "noted"
    /\ Goes(c, "asksAgain")
    /\ UNCHANGED conn

\* Mutant: the time limit is one on getting the first connection.
Deadline_WhoWaits(c) ==
    /\ Stands(c, {"asks"})
    /\ call[c].work # "unhurried" /\ ~call[c].expired
    /\ call' = [call EXCEPT ![c].expired = TRUE]
    /\ UNCHANGED conn

\* The router's timeout cancels the context.
Deadline(c) ==
    /\ ~Stands(c, {"ended"})
    /\ call[c].work # "unhurried" /\ ~call[c].expired
    /\ call' = [call EXCEPT ![c].expired = TRUE]
    /\ UNCHANGED conn

\* BeginTx(ctx): the transaction goes when its context does, wherever the handler is.
RollBackExpired(c) ==
    /\ conn = c /\ call[c].expired
    /\ call[c].work \in {"transaction", "noted"}
    /\ Stands(c, {"holds", "asksAgain"})
    /\ conn' = NoOne
    /\ IF Stands(c, {"holds"}) THEN Goes(c, "late") ELSE UNCHANGED call

\* A wait ends with its context: a first one with an error, the rack's name with
\* a name made up, after which the event meets a transaction that is gone.
GiveUp(c) ==
    /\ call[c].expired
    /\ \/ Stands(c, {"asks"}) /\ Ends(c)
       \/ Stands(c, {"asksAgain"}) /\ Goes(c, "late")
    /\ UNCHANGED conn

\* The handler returns its error; the deferred Rollback frees what is held.
ReturnLate(c) ==
    /\ Stands(c, {"late"})
    /\ Ends(c) /\ Frees(c)

PoolNext ==
    \E c \in Caller :
        \/ \E work \in Work, n \in 1..MaxPieces : Arrive(c, work, n)
        \/ GetConnection(c) \/ FinishPiece(c) \/ LoadRackName(c)
        \/ Deadline(c) \/ RollBackExpired(c) \/ GiveUp(c) \/ ReturnLate(c)

(***************************************************************************)
(* Handlers run on and time passes.  A freed connection is offered to the  *)
(* waiting callers at random, so that nobody is passed over for ever.      *)
(***************************************************************************)
PoolFairness ==
    \A c \in Caller :
        /\ SF_poolVars(GetConnection(c))
        /\ WF_poolVars(FinishPiece(c) \/ LoadRackName(c))
        /\ WF_poolVars(Deadline(c)) /\ WF_poolVars(GiveUp(c)) /\ WF_poolVars(ReturnLate(c))

PoolSpec == PoolInit /\ [][PoolNext]_poolVars /\ PoolFairness

-----------------------------------------------------------------------------
\* The connection is with a caller who will give it back: one who holds it, who
\* waits for a second one, or who is about to return.
PoolTypeOK ==
    /\ conn \in Caller \cup {NoOne}
    /\ call \in [Caller -> Call]
    /\ \A c \in Caller : Stands(c, {"holds"}) => conn = c
    /\ conn # NoOne => Stands(conn, {"holds", "asksAgain", "late"})

\* Whatever callers meet, those without a deadline and the one who waits for himself
\* included, every call ends: the pool never stays taken.
CallsEnd == \A c \in Caller : ~Stands(c, {"ended"}) ~> Stands(c, {"ended"})

\* What the comment on rackName says of a save, that its name is put together from
\* the form and the place it names: a save does not ask for the row, and so not for
\* a second connection while it holds the only one.
SavesNeedOneConnection == \A c \in Caller : conn = c => ~Stands(c, {"asksAgain"})
=============================================================================
