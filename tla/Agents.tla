-------------------------------- MODULE Agents --------------------------------
(***************************************************************************)
(* Agents, each of some trades, and the records that name one for a trade: *)
(* an item and a software their maker, an invoice vendor and buyer, a      *)
(* contract the contractor.  An agent is deleted in a transaction, but     *)
(* updated in a statement that comes after others have counted who still   *)
(* needs the trades it is to lose.                                         *)
(*                                                                         *)
(* A use is one of those columns of one record; that an item also names a  *)
(* vendor by title is left out, and so are titles.  Ids are never drawn    *)
(* twice.                                                                  *)
(***************************************************************************)
CONSTANTS
    Agent, Trade,
    Contracting,   \* the trade of contractors
    Use,           \* columns of records that name an agent
    TradeOf,       \* the trade each asks for
    Editor,        \* updates that may run at the same time
    Nobody, NoAgent, ExAgent

ASSUME AgentsAssumption ==
    /\ Contracting \in Trade /\ TradeOf \in [Use -> Trade]
    /\ Nobody \notin Agent
    /\ \A some \in SUBSET Trade : some \notin {NoAgent, ExAgent}

VARIABLES
    trades,    \* agents.type
    named,     \* the agent of each use
    unknown,   \* uses that were saved with an agent that was not there: history
    unfit,     \* ... or that did not have the trade, or has lost it since: history
    edit       \* where each update is

agentVars == <<trades, named, unknown, unfit, edit>>

Agents == {a \in Agent : trades[a] \notin {NoAgent, ExAgent}}
UsesOf(a, some) == {u \in Use : named[u] = a /\ TradeOf[u] \in some}

IdleEdit == [step |-> "idle", agent |-> Nobody, trades |-> {}]
Edit == [step : {"idle", "counted"}, agent : Agent \cup {Nobody}, trades : SUBSET Trade]

AgentsInit ==
    /\ trades = [a \in Agent |-> NoAgent]
    /\ named = [u \in Use |-> Nobody]
    /\ unknown = {} /\ unfit = {}
    /\ edit = [p \in Editor |-> IdleEdit]

-----------------------------------------------------------------------------
CreateAgent(a, some) ==
    /\ trades[a] = NoAgent
    /\ trades' = [trades EXCEPT ![a] = some]
    /\ UNCHANGED <<named, unknown, unfit, edit>>

\* AgentWorkflow.Update: enforceAgentTypeRemovalRules.
CountUses(p, a, some) ==
    /\ edit[p].step = "idle" /\ a \in Agents
    /\ UsesOf(a, trades[a] \ some) = {}
    /\ edit' = [edit EXCEPT ![p] = [step |-> "counted", agent |-> a, trades |-> some]]
    /\ UNCHANGED <<trades, named, unknown, unfit>>

\* Its UPDATE, which may find the agent gone.
StoreAgent(p) ==
    LET a == edit[p].agent
        some == edit[p].trades
    IN  /\ edit[p].step = "counted"
        /\ trades' = [trades EXCEPT ![a] = IF a \in Agents THEN some ELSE @]
        /\ unfit' = IF a \in Agents THEN unfit \cup UsesOf(a, Trade \ some) ELSE unfit
        /\ edit' = [edit EXCEPT ![p] = IdleEdit]
        /\ UNCHANGED <<named, unknown>>

EditFails(p) ==
    /\ edit[p].step = "counted"
    /\ edit' = [edit EXCEPT ![p] = IdleEdit]
    /\ UNCHANGED <<trades, named, unknown, unfit>>

\* Mutant: only what the trades of the agent ask for is emptied.
Cleared_OwnTrades(a) ==
    [u \in Use |-> IF u \in UsesOf(a, trades[a] \ {Contracting}) THEN Nobody ELSE named[u]]

\* DeleteAgentReferences: by column, whatever trades are left, but for contracts.
Cleared(a) ==
    [u \in Use |-> IF u \in UsesOf(a, Trade \ {Contracting}) THEN Nobody ELSE named[u]]

\* AgentWorkflow.Delete: refused for uses of its trades; those of others, which no
\* check kept from naming it, are emptied.
DeleteAgent(a) ==
    /\ a \in Agents /\ UsesOf(a, trades[a]) = {}
    /\ named' = Cleared(a)
    /\ trades' = [trades EXCEPT ![a] = ExAgent]
    /\ UNCHANGED <<unknown, unfit, edit>>

\* A record is saved: whatever id the form has is stored.
NameAgent(u, a) ==
    /\ named' = [named EXCEPT ![u] = a]
    /\ unknown' = IF a \in Agents THEN unknown \ {u} ELSE unknown \cup {u}
    /\ unfit' = IF a \in Agents /\ TradeOf[u] \in trades[a] THEN unfit \ {u}
                ELSE unfit \cup {u}
    /\ UNCHANGED <<trades, edit>>

AgentsNext ==
    \/ \E a \in Agent, some \in SUBSET Trade :
          \/ CreateAgent(a, some)
          \/ \E p \in Editor : CountUses(p, a, some)
    \/ \E p \in Editor : StoreAgent(p) \/ EditFails(p)
    \/ \E a \in Agent : DeleteAgent(a)
    \/ \E u \in Use, a \in Agent : NameAgent(u, a)

AgentsSpec == AgentsInit /\ [][AgentsNext]_agentVars

-----------------------------------------------------------------------------
\* Every variable has its range.
AgentsTypeOK ==
    /\ trades \in [Agent -> {NoAgent, ExAgent} \cup SUBSET Trade]
    /\ named \in [Use -> Agent \cup {Nobody}]
    /\ unknown \subseteq Use
    /\ unfit \subseteq Use
    /\ edit \in [Editor -> Edit]

\* No record names an agent that was deleted, whatever trades it had and lost, unless
\* it was saved so; a contract not either, unless its agent was, or came to be, none
\* for contracts.
AgentsCleared ==
    \A u \in Use : named[u] # Nobody /\ named[u] \notin Agents =>
        u \in IF TradeOf[u] = Contracting THEN unfit ELSE unknown
=============================================================================
