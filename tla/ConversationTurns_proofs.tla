------------------------ MODULE ConversationTurns_proofs ------------------------
(***************************************************************************)
(* Proofs about ConversationTurns for every set of conversations and any   *)
(* number of messages, versions, failures and lost requests.               *)
(*                                                                         *)
(* The rows speak for themselves (RowsAgree): a conversation is running    *)
(* exactly while its current turn is, the lease that claimed the turn is   *)
(* active and of the conversation's scope, and an interrupted turn keeps   *)
(* its conversation from going on.  A daemon may know less than the rows   *)
(* do, but what it knows of the turn it works on stays true while that     *)
(* turn runs (DaemonAgrees), since nobody transfers or switches a          *)
(* conversation under a running turn.                                      *)
(***************************************************************************)
EXTENDS ConversationTurns, SequenceTheorems, TLAPS

ConversationRow ==
    [state : ConversationStates, scope : Scope, version : 1..MaxVersion,
     current : 0..MaxTurns, archived : BOOLEAN]

TurnRow ==
    [conversation : Conversation, state : TurnStates,
     claimed_by : Scope \union {"none"}, route : 0..MaxVersion]

DaemonRow ==
    [token : Tokens, pc : Steps, turn : 0..MaxTurns,
     version : 0..MaxVersion, settled : BOOLEAN]

PiRow == [version : 0..MaxVersion, work : 0..MaxTurns, handler : 0..MaxTurns]

\* A turn and its conversation.
TurnAgrees(t) ==
    LET row == conversation[turn[t].conversation]
    IN  /\ turn[t].state = "running" =>
              /\ row.state = "running" /\ row.current = t
              /\ turn[t].claimed_by = row.scope /\ row.scope \in lease
        /\ turn[t].state = "reconciliation_required" =>
              row.state = "reconciliation_required"

ConversationAgrees(c) ==
    LET t == conversation[c].current
    IN  conversation[c].state = "running" =>
              t \in DOMAIN turn /\ turn[t].conversation = c /\ turn[t].state = "running"

\* An export that was begun leaves room for the version it leads to.
RequestAgrees(k) ==
    request[k] # NoRequest => request[k].captured < MaxVersion

\* The claim a daemon works on, and the process it has for it.
DaemonAgrees(s) ==
    LET t == daemon[s].turn
        c == turn[t].conversation
        step == daemon[s].pc
    IN  /\ daemon[s].token = "live" => s \in lease
        /\ step # "idle" =>
              /\ t \in DOMAIN turn
              /\ turn[t].state # "queued"
              /\ turn[t].state = "running" /\ step # "failing" =>
                    /\ daemon[s].version = conversation[c].version
                    /\ step \in {"prompting", "prompted"} =>
                          turn[t].route = conversation[c].version
              /\ step \in {"opened", "prompting", "prompted"} /\ pi[s][c] # NoPi =>
                    pi[s][c].version = daemon[s].version

RowsAgree ==
    /\ \A t \in DOMAIN turn : TurnAgrees(t)
    /\ \A c \in Conversation : ConversationAgrees(c)

Inv ==
    /\ TypeOK
    /\ RowsAgree
    /\ \A k \in Requests : RequestAgrees(k)
    /\ \A s \in Scope : DaemonAgrees(s)

-----------------------------------------------------------------------------
(* Turns as a sequence.                                                    *)

LEMMA TurnsType ==
    ASSUME TypeOK
    PROVE  /\ turn \in Seq(TurnRow) /\ Len(turn) \in 0..MaxTurns
           /\ DOMAIN turn = 1..Len(turn)
           /\ \A t \in DOMAIN turn : turn[t] \in TurnRow /\ t \in 1..MaxTurns
<1>1. turn \in Seq(TurnRow) /\ Len(turn) <= MaxTurns
  BY DEF TypeOK, TurnRow
<1>2. DOMAIN turn = 1..Len(turn) /\ Len(turn) \in Nat
  BY <1>1, LenProperties
<1>3. \A t \in 1..Len(turn) : turn[t] \in TurnRow
  BY <1>1, ElementOfSeq
<1>4. QED  BY <1>1, <1>2, <1>3, BoundsAssumption

LEMMA FunctionIsSequence ==
    ASSUME NEW S, NEW n \in Nat, NEW f \in [1..n -> S]
    PROVE  f \in Seq(S)
BY SeqDef

\* A step that changes turns but adds none keeps the table a table.
LEMMA RewrittenTurns ==
    ASSUME TypeOK, NEW rows2, rows2 = [t \in DOMAIN turn |-> rows2[t]],
           \A t \in DOMAIN turn : rows2[t] \in TurnRow
    PROVE  rows2 \in Seq(TurnRow) /\ Len(rows2) = Len(turn)
<1>1. rows2 \in [1..Len(turn) -> TurnRow] /\ Len(turn) \in Nat
  BY TurnsType
<1>2. rows2 \in Seq(TurnRow)
  BY <1>1, FunctionIsSequence
<1>3. Len(rows2) \in Nat /\ DOMAIN rows2 = 1..Len(rows2)
  BY <1>2, LenProperties
<1>4. DOMAIN rows2 = 1..Len(turn)
  BY <1>1
<1>5. QED  BY <1>1, <1>2, <1>3, <1>4

LEMMA AppendedTurn ==
    ASSUME TypeOK, NEW x \in TurnRow, Len(turn) < MaxTurns
    PROVE  /\ Append(turn, x) \in Seq(TurnRow)
           /\ Len(Append(turn, x)) = Len(turn) + 1
           /\ DOMAIN Append(turn, x) = DOMAIN turn \union {Len(turn) + 1}
           /\ Len(turn) + 1 \notin DOMAIN turn /\ Len(turn) + 1 \in 1..MaxTurns
           /\ Append(turn, x)[Len(turn) + 1] = x
           /\ \A t \in DOMAIN turn : Append(turn, x)[t] = turn[t]
<1>1. turn \in Seq(TurnRow) /\ Len(turn) \in Nat /\ DOMAIN turn = 1..Len(turn)
  BY TurnsType
<1>2. /\ Append(turn, x) \in Seq(TurnRow)
      /\ Len(Append(turn, x)) = Len(turn) + 1
      /\ Append(turn, x)[Len(turn) + 1] = x
      /\ \A t \in 1..Len(turn) : Append(turn, x)[t] = turn[t]
  BY <1>1
<1>3. DOMAIN Append(turn, x) = 1..(Len(turn) + 1)
  BY <1>1, <1>2, LenProperties
<1>4. QED  BY <1>1, <1>2, <1>3, BoundsAssumption

-----------------------------------------------------------------------------
(* Types.                                                                  *)

RowsType ==
    /\ conversation \in [Conversation -> ConversationRow]
    /\ turn \in Seq(TurnRow) /\ Len(turn) <= MaxTurns
    /\ lease \subseteq Scope

ProcessType ==
    /\ daemon \in [Scope -> DaemonRow]
    /\ pi \in [Scope -> [Conversation -> PiRow]]

OtherType ==
    /\ request \in [Requests ->
          {NoRequest} \union [conversation : Conversation, captured : 1..MaxVersion]]
    /\ change \subseteq Turns \X Turns
    /\ troubles \in Nat /\ lost \in Nat /\ troubles + lost <= MaxFaults

LEMMA TypeParts == TypeOK <=> RowsType /\ ProcessType /\ OtherType
BY DEF TypeOK, RowsType, ProcessType, OtherType, ConversationRow, TurnRow, DaemonRow, PiRow

LEMMA TypeNext ==
    ASSUME RowsType', ProcessType', OtherType'
    PROVE  TypeOK'
BY DEF TypeOK, RowsType, ProcessType, OtherType, ConversationRow, TurnRow, DaemonRow, PiRow

LEMMA NoPiType == NoPi \in PiRow
BY BoundsAssumption DEF NoPi, PiRow

LEMMA RestType ==
    ASSUME ProcessType, NEW s \in Scope
    PROVE  Rest(s) \in DaemonRow /\ NoDaemon \in DaemonRow
<1>1. daemon[s] \in DaemonRow
  BY DEF ProcessType
<1>2. 0 \in 0..MaxTurns /\ 0 \in 0..MaxVersion
  BY BoundsAssumption
<1>3. Rest(s) \in DaemonRow
  BY <1>1, <1>2 DEF Rest, DaemonRow, Steps
<1>4. NoDaemon \in DaemonRow
  BY <1>2 DEF NoDaemon, DaemonRow, Tokens, Steps
<1>5. QED  BY <1>3, <1>4

LEMMA NothingChangedType ==
    ASSUME OtherType, UNCHANGED <<request, change>>,
           \/ UNCHANGED <<troubles, lost>>
           \/ troubles + lost < MaxFaults /\ troubles' = troubles + 1 /\ lost' = lost
           \/ troubles + lost < MaxFaults /\ lost' = lost + 1 /\ troubles' = troubles
    PROVE  OtherType'
BY BoundsAssumption DEF OtherType

-----------------------------------------------------------------------------
(* What a step leaves alone.                                               *)

\* No turn is taken up twice, and while a turn runs, the version of its
\* conversation stays.
Advances ==
    /\ DOMAIN turn \subseteq DOMAIN turn'
    /\ \A t \in DOMAIN turn :
          /\ turn'[t].conversation = turn[t].conversation
          /\ turn[t].state # "queued" =>
                /\ turn'[t].state # "queued"
                /\ turn'[t].state = "running" =>
                      LET version == conversation[turn[t].conversation].version
                      IN  /\ turn[t].state = "running"
                          /\ conversation'[turn[t].conversation].version = version
                          /\ turn'[t].route \in {turn[t].route, version}

\* No process appears; one that stays keeps its route.
ProcessesStay(s) ==
    \A c \in Conversation :
       pi'[s][c] # NoPi => pi[s][c] # NoPi /\ pi'[s][c].version = pi[s][c].version

LEMMA DaemonWaits ==
    ASSUME Inv, NEW s \in Scope, Advances, ProcessesStay(s),
           daemon'[s].pc = daemon[s].pc, daemon'[s].turn = daemon[s].turn,
           daemon'[s].version = daemon[s].version,
           daemon'[s].token = "live" => s \in lease'
    PROVE  DaemonAgrees(s)'
<1>1. DaemonAgrees(s)
  BY DEF Inv
<1>2. CASE daemon[s].pc = "idle"
  BY <1>2 DEF DaemonAgrees
<1>3. CASE daemon[s].pc # "idle"
  <2> DEFINE t == daemon[s].turn
             c == turn[t].conversation
  <2>1. /\ t \in DOMAIN turn /\ turn[t].state # "queued" /\ c \in Conversation
        /\ turn'[t].conversation = c
    BY <1>1, <1>3, TurnsType DEF DaemonAgrees, Advances, Inv, TurnRow
  <2>2. /\ t \in DOMAIN turn' /\ turn'[t].state # "queued"
        /\ turn'[t].state = "running" =>
              /\ turn[t].state = "running"
              /\ conversation'[c].version = conversation[c].version
              /\ turn'[t].route \in {turn[t].route, conversation[c].version}
    BY <2>1 DEF Advances
  <2>3. pi'[s][c] # NoPi => pi[s][c] # NoPi /\ pi'[s][c].version = pi[s][c].version
    BY <2>1 DEF ProcessesStay
  <2>4. QED  BY <1>1, <1>3, <2>1, <2>2, <2>3 DEF DaemonAgrees
<1>4. QED  BY <1>2, <1>3

\* Rows and processes stay as they are.
LEMMA RowsStay ==
    ASSUME Inv, UNCHANGED rows
    PROVE  RowsType' /\ RowsAgree' /\ Advances
<1>1. RowsType
  BY TypeParts DEF Inv
<1>2. RowsType'
  BY <1>1 DEF RowsType, rows
<1>3. RowsAgree'
  BY DEF Inv, RowsAgree, TurnAgrees, ConversationAgrees, rows
<1>4. Advances
  BY DEF Advances, rows
<1>5. QED  BY <1>2, <1>3, <1>4

LEMMA RequestsStay ==
    ASSUME Inv, UNCHANGED request
    PROVE  \A k \in Requests : RequestAgrees(k)'
BY DEF Inv, RequestAgrees

-----------------------------------------------------------------------------
(* The end of a lease, a claim and a completion.                           *)

LEMMA RunningTurnsRow ==
    ASSUME Inv, NEW c \in Conversation, NEW t \in RunningTurns(c)
    PROVE  /\ t \in DOMAIN turn /\ turn[t].conversation = c /\ turn[t].state = "running"
           /\ conversation[c].state = "running" /\ conversation[c].current = t
           /\ turn[t].claimed_by = conversation[c].scope
           /\ RunningTurns(c) = {t}
<1>1. t \in DOMAIN turn /\ turn[t].conversation = c /\ turn[t].state = "running"
  BY DEF RunningTurns
<1>2. \A u \in RunningTurns(c) :
         /\ conversation[c].state = "running" /\ conversation[c].current = u
         /\ turn[u].claimed_by = conversation[c].scope
  BY DEF RunningTurns, Inv, RowsAgree, TurnAgrees
<1>3. QED  BY <1>1, <1>2

LEMMA ReconciledConversation ==
    ASSUME Inv, NEW s \in Scope, NEW c \in Conversation
    PROVE  /\ ReconciledConversations(s)[c] \in ConversationRow
           /\ ReconciledConversations(s)[c].version = conversation[c].version
           /\ ReconciledConversations(s)[c].scope = conversation[c].scope
           /\ \/ /\ \E t \in RunningTurns(c) : turn[t].claimed_by = s
                 /\ ReconciledConversations(s)[c].state = "reconciliation_required"
              \/ /\ \A t \in RunningTurns(c) : turn[t].claimed_by # s
                 /\ ReconciledConversations(s)[c] = conversation[c]
<1>1. conversation[c] \in ConversationRow
  BY TypeParts DEF Inv, RowsType
<1>2. CASE \A t \in RunningTurns(c) : turn[t].claimed_by # s
  BY <1>1, <1>2 DEF ReconciledConversations
<1>3. CASE \E t \in RunningTurns(c) : turn[t].claimed_by = s
  <2> DEFINE t == CHOOSE t \in RunningTurns(c) : turn[t].claimed_by = s
  <2>1. t \in RunningTurns(c)
    BY <1>3
  <2>2. t \in 0..MaxTurns
    BY <2>1, TurnsType DEF RunningTurns, Inv
  <2>3. ReconciledConversations(s)[c] =
          [conversation[c] EXCEPT !.state = "reconciliation_required", !.current = t]
    BY <1>3 DEF ReconciledConversations
  <2> HIDE DEF t
  <2>4. QED  BY <1>1, <1>3, <2>2, <2>3 DEF ConversationRow, ConversationStates
<1>4. QED  BY <1>2, <1>3

LEMMA ReconciledTurn ==
    ASSUME Inv, NEW s \in Scope, NEW t \in DOMAIN turn
    PROVE  /\ ReconciledTurns(s)[t] \in TurnRow
           /\ ReconciledTurns(s)[t].conversation = turn[t].conversation
           /\ ReconciledTurns(s)[t].claimed_by = turn[t].claimed_by
           /\ ReconciledTurns(s)[t].route = turn[t].route
           /\ ReconciledTurns(s)[t].state =
                 IF turn[t].state = "running" /\ turn[t].claimed_by = s
                 THEN "reconciliation_required" ELSE turn[t].state
<1>1. turn[t] \in TurnRow
  BY TurnsType DEF Inv
<1>2. QED  BY <1>1 DEF ReconciledTurns, TurnRow, TurnStates

LEMMA EndLeaseRows ==
    ASSUME Inv, NEW s \in Scope, EndLease(s)
    PROVE  RowsType' /\ RowsAgree' /\ Advances /\ DOMAIN turn' = DOMAIN turn
<1>1. RowsType
  BY TypeParts DEF Inv
<1>2. /\ turn' \in Seq(TurnRow) /\ Len(turn') = Len(turn) /\ DOMAIN turn' = DOMAIN turn
      /\ \A t \in DOMAIN turn : turn'[t] = ReconciledTurns(s)[t]
  <2>1. DOMAIN turn' = DOMAIN turn /\ turn' = ReconciledTurns(s)
    BY DEF EndLease, ReconciledTurns
  <2>2. ReconciledTurns(s) = [t \in DOMAIN turn |-> ReconciledTurns(s)[t]]
    BY DEF ReconciledTurns
  <2>3. QED  BY <2>1, <2>2, ReconciledTurn, RewrittenTurns DEF Inv
<1>3. /\ conversation' = [c \in Conversation |-> ReconciledConversations(s)[c]]
      /\ conversation' \in [Conversation -> ConversationRow]
  <2>1. ReconciledConversations(s) = [c \in Conversation |-> ReconciledConversations(s)[c]]
    BY DEF ReconciledConversations
  <2>2. QED  BY <2>1, ReconciledConversation DEF EndLease
<1>4. RowsType'
  BY <1>1, <1>2, <1>3 DEF RowsType, EndLease
<1>5. ASSUME NEW t \in DOMAIN turn
      PROVE  TurnAgrees(t)'
  <2> DEFINE c == turn[t].conversation
  <2>1. c \in Conversation /\ turn'[t].conversation = c
    BY SMTT(20), <1>2, TurnsType, ReconciledTurn DEF Inv, TurnRow
  <2>2. TurnAgrees(t)
    BY DEF Inv, RowsAgree
  <2>3. CASE turn'[t].state = "running"
    <3>1. /\ turn[t].state = "running" /\ turn[t].claimed_by # s
          /\ turn'[t].claimed_by = turn[t].claimed_by /\ t \in RunningTurns(c)
      BY <1>2, <2>3, ReconciledTurn DEF RunningTurns
    <3>2. \A u \in RunningTurns(c) : turn[u].claimed_by # s
      BY <2>1, <3>1, RunningTurnsRow
    <3>3. conversation'[c] = conversation[c]
      BY <1>3, <2>1, <3>2, ReconciledConversation
    <3>4. QED  BY <2>1, <2>2, <2>3, <3>1, <3>3 DEF TurnAgrees, EndLease
  <2>4. CASE turn'[t].state = "reconciliation_required"
    <3>1. CASE turn[t].state = "reconciliation_required"
      <4>1. RunningTurns(c) = {}
        BY <2>1, <2>2, <3>1, RunningTurnsRow DEF TurnAgrees
      <4>2. conversation'[c] = conversation[c]
        BY <1>3, <2>1, <4>1, ReconciledConversation
      <4>3. QED  BY <2>1, <2>2, <2>4, <3>1, <4>2 DEF TurnAgrees
    <3>2. CASE turn[t].state = "running" /\ turn[t].claimed_by = s
      <4>1. \E u \in RunningTurns(c) : turn[u].claimed_by = s
        BY <3>2 DEF RunningTurns
      <4>2. conversation'[c].state = "reconciliation_required"
        BY <1>3, <2>1, <4>1, ReconciledConversation
      <4>3. QED  BY <2>1, <2>4, <4>2 DEF TurnAgrees
    <3>3. QED  BY <1>2, <2>4, <3>1, <3>2, ReconciledTurn
  <2>5. QED  BY <2>3, <2>4 DEF TurnAgrees
<1>6. ASSUME NEW c \in Conversation
      PROVE  ConversationAgrees(c)'
  <2>1. CASE \E t \in RunningTurns(c) : turn[t].claimed_by = s
    BY <1>3, <2>1, ReconciledConversation DEF ConversationAgrees
  <2>2. CASE \A t \in RunningTurns(c) : turn[t].claimed_by # s
    <3>1. conversation'[c] = conversation[c]
      BY <1>3, <2>2, ReconciledConversation
    <3>2. QED
      BY <1>2, <2>2, <3>1, ReconciledTurn DEF ConversationAgrees, RunningTurns, Inv, RowsAgree
  <2>3. QED  BY <2>1, <2>2
<1>7. Advances
  BY <1>2, <1>3, ReconciledTurn, ReconciledConversation, TurnsType DEF Advances, Inv, TurnRow
<1>8. QED  BY <1>2, <1>4, <1>5, <1>6, <1>7 DEF RowsAgree

\* Changing one turn in place.
LEMMA OneTurnType ==
    ASSUME TypeOK, NEW t \in DOMAIN turn, NEW x \in TurnRow, turn' = [turn EXCEPT ![t] = x]
    PROVE  /\ turn' \in Seq(TurnRow) /\ Len(turn') = Len(turn) /\ DOMAIN turn' = DOMAIN turn
           /\ turn'[t] = x /\ \A u \in DOMAIN turn \ {t} : turn'[u] = turn[u]
<1>1. turn \in Seq(TurnRow) /\ DOMAIN turn = 1..Len(turn)
  BY TurnsType
<1>2. /\ turn' \in Seq(TurnRow) /\ Len(turn') = Len(turn)
      /\ \A u \in 1..Len(turn) : turn'[u] = IF u = t THEN x ELSE turn[u]
  BY <1>1, ExceptSeq
<1>3. DOMAIN turn' = DOMAIN turn
  OBVIOUS
<1>4. QED  BY <1>1, <1>2, <1>3

LEMMA ClaimTurnRows ==
    ASSUME Inv, NEW s \in lease, NEW t \in DOMAIN turn, ClaimTurn(s, t), UNCHANGED lease
    PROVE  /\ RowsType' /\ RowsAgree' /\ Advances /\ DOMAIN turn' = DOMAIN turn
           /\ turn'[t].conversation = turn[t].conversation
           /\ turn[t].state = "queued" /\ turn'[t].state = "running"
           /\ turn'[t].route = turn[t].route
           /\ \A u \in DOMAIN turn \ {t} : turn'[u] = turn[u]
           /\ \A c \in Conversation : conversation'[c].version = conversation[c].version
<1> DEFINE c == turn[t].conversation
           x == [turn[t] EXCEPT !.state = "running", !.claimed_by = s]
<1>1. RowsType /\ TypeOK
  BY TypeParts DEF Inv
<1>2. /\ turn[t] \in TurnRow /\ c \in Conversation /\ s \in Scope /\ t \in 0..MaxTurns
      /\ conversation[c] \in ConversationRow
  BY <1>1, TurnsType DEF TurnRow, RowsType
<1>3. x \in TurnRow /\ turn' = [turn EXCEPT ![t] = x]
  BY <1>1, <1>2, TurnsType DEF ClaimTurn, TurnRow, TurnStates
<1>4. /\ turn' \in Seq(TurnRow) /\ Len(turn') = Len(turn) /\ DOMAIN turn' = DOMAIN turn
      /\ turn'[t] = x /\ \A u \in DOMAIN turn \ {t} : turn'[u] = turn[u]
  BY <1>1, <1>3, OneTurnType
<1>5. /\ turn'[t].conversation = c /\ turn'[t].state = "running"
      /\ turn'[t].claimed_by = s /\ turn'[t].route = turn[t].route
  BY <1>2, <1>4 DEF TurnRow
<1>6. /\ turn[t].state = "queued" /\ conversation[c].scope = s
      /\ conversation[c].state \notin {"running", "reconciliation_required", "archived"}
  BY DEF ClaimTurn, Claimable
<1>7. /\ conversation' \in [Conversation -> ConversationRow]
      /\ conversation'[c].state = "running" /\ conversation'[c].current = t
      /\ conversation'[c].scope = s /\ conversation'[c].version = conversation[c].version
      /\ \A b \in Conversation \ {c} : conversation'[b] = conversation[b]
  BY <1>1, <1>2, <1>6 DEF ClaimTurn, RowsType, ConversationRow, ConversationStates
<1>8. RowsType'
  BY <1>1, <1>4, <1>7 DEF RowsType
<1>9. ASSUME NEW u \in DOMAIN turn
      PROVE  TurnAgrees(u)'
  <2>1. CASE u = t
    BY <1>5, <1>7, <2>1 DEF TurnAgrees
  <2>2. CASE u # t
    <3>1. TurnAgrees(u) /\ turn'[u] = turn[u] /\ turn[u].conversation \in Conversation
      BY <1>1, <1>4, <2>2, TurnsType DEF Inv, RowsAgree, TurnRow
    <3>2. CASE turn[u].conversation = c
      BY <1>6, <3>1, <3>2 DEF TurnAgrees
    <3>3. CASE turn[u].conversation # c
      BY <1>7, <3>1, <3>3 DEF TurnAgrees
    <3>4. QED  BY <3>2, <3>3
  <2>3. QED  BY <2>1, <2>2
<1>10. ASSUME NEW b \in Conversation
       PROVE  ConversationAgrees(b)'
  <2>1. CASE b = c
    BY <1>4, <1>5, <1>7, <2>1 DEF ConversationAgrees
  <2>2. CASE b # c
    BY <1>4, <1>6, <1>7, <2>2 DEF ConversationAgrees, Inv, RowsAgree
  <2>3. QED  BY <2>1, <2>2
<1>11. \A b \in Conversation : conversation'[b].version = conversation[b].version
  BY <1>7
<1>12. Advances
  BY <1>1, <1>4, <1>5, <1>6, <1>11, TurnsType DEF Advances, TurnRow
<1>13. QED  BY <1>4, <1>5, <1>6, <1>8, <1>9, <1>10, <1>11, <1>12 DEF RowsAgree

LEMMA CompleteTurnRows ==
    ASSUME Inv, NEW s \in Scope, NEW t \in DOMAIN turn, NEW outcome \in {"completed", "failed"},
           ActiveTurnForLease(s, t), CompleteTurn(t, outcome), UNCHANGED lease
    PROVE  /\ RowsType' /\ RowsAgree' /\ Advances /\ DOMAIN turn' = DOMAIN turn
           /\ turn'[t].conversation = turn[t].conversation
           /\ turn'[t].state = outcome
           /\ \A u \in DOMAIN turn \ {t} : turn'[u] = turn[u]
<1> DEFINE c == turn[t].conversation
           x == [turn[t] EXCEPT !.state = outcome]
<1>1. RowsType /\ TypeOK
  BY TypeParts DEF Inv
<1>2. /\ turn[t] \in TurnRow /\ c \in Conversation /\ 0 \in 0..MaxTurns
      /\ conversation[c] \in ConversationRow
  BY <1>1, TurnsType, BoundsAssumption DEF TurnRow, RowsType
<1>3. x \in TurnRow /\ turn' = [turn EXCEPT ![t] = x]
  BY <1>1, <1>2, TurnsType DEF CompleteTurn, TurnRow, TurnStates
<1>4. /\ turn' \in Seq(TurnRow) /\ Len(turn') = Len(turn) /\ DOMAIN turn' = DOMAIN turn
      /\ turn'[t] = x /\ \A u \in DOMAIN turn \ {t} : turn'[u] = turn[u]
  BY <1>1, <1>3, OneTurnType
<1>5. turn'[t].conversation = c /\ turn'[t].state = outcome
  BY <1>2, <1>4 DEF TurnRow
<1>6. /\ conversation[c].state = "running" /\ conversation[c].current = t
      /\ \A u \in DOMAIN turn : turn[u].conversation = c =>
            /\ turn[u].state # "reconciliation_required"
            /\ turn[u].state = "running" => u = t
  BY <1>2 DEF ActiveTurnForLease, Inv, RowsAgree, TurnAgrees
<1>7. StateAfter(c, outcome) \in {"queued", "failed", "idle"}
  BY DEF StateAfter
<1>8. /\ conversation' \in [Conversation -> ConversationRow]
      /\ conversation'[c].state \in {"queued", "failed", "idle"}
      /\ conversation'[c].version = conversation[c].version
      /\ \A b \in Conversation \ {c} : conversation'[b] = conversation[b]
  BY <1>1, <1>2, <1>7 DEF CompleteTurn, RowsType, ConversationRow, ConversationStates
<1>9. RowsType'
  BY <1>1, <1>4, <1>8 DEF RowsType
<1>10. ASSUME NEW u \in DOMAIN turn
       PROVE  TurnAgrees(u)'
  <2>1. CASE u = t
    BY <1>5, <2>1 DEF TurnAgrees
  <2>2. CASE u # t
    <3>1. TurnAgrees(u) /\ turn'[u] = turn[u] /\ turn[u].conversation \in Conversation
      BY <1>1, <1>4, <2>2, TurnsType DEF Inv, RowsAgree, TurnRow
    <3>2. CASE turn[u].conversation = c
      BY <1>6, <2>2, <3>1, <3>2 DEF TurnAgrees
    <3>3. CASE turn[u].conversation # c
      BY <1>8, <3>1, <3>3 DEF TurnAgrees
    <3>4. QED  BY <3>2, <3>3
  <2>3. QED  BY <2>1, <2>2
<1>11. ASSUME NEW b \in Conversation
       PROVE  ConversationAgrees(b)'
  <2>1. CASE b = c
    BY <1>8, <2>1 DEF ConversationAgrees
  <2>2. CASE b # c
    BY <1>4, <1>8, <2>2 DEF ConversationAgrees, Inv, RowsAgree
  <2>3. QED  BY <2>1, <2>2
<1>12. Advances
  BY <1>1, <1>4, <1>5, <1>8, TurnsType DEF Advances, TurnRow
<1>13. QED  BY <1>4, <1>5, <1>9, <1>10, <1>11, <1>12 DEF RowsAgree

-----------------------------------------------------------------------------
(* The owner.                                                              *)

LEMMA ProcessesWait ==
    ASSUME Inv, Advances, UNCHANGED <<lease, daemon, pi>>
    PROVE  ProcessType' /\ \A s \in Scope : DaemonAgrees(s)'
<1>1. ProcessType'
  BY TypeParts DEF Inv, ProcessType
<1>2. ASSUME NEW s \in Scope
      PROVE  DaemonAgrees(s)'
  <2>1. ProcessesStay(s)
    BY DEF ProcessesStay
  <2>2. daemon[s].token = "live" => s \in lease
    BY DEF Inv, DaemonAgrees
  <2>3. QED  BY <2>1, <2>2, DaemonWaits
<1>3. QED  BY <1>1, <1>2

\* Rows of one conversation whose turns neither run nor wait for
\* reconciliation may be rewritten.
LEMMA RewriteConversation ==
    ASSUME Inv, NEW c \in Conversation, NEW row \in ConversationRow,
           conversation' = [conversation EXCEPT ![c] = row],
           UNCHANGED <<turn, lease>>,
           \/ conversation[c].state \notin {"running", "reconciliation_required"}
              /\ row.state # "running"
           \/ /\ row.state = conversation[c].state /\ row.current = conversation[c].current
              /\ row.scope = conversation[c].scope
              /\ row.version = conversation[c].version \/ RunningTurns(c) = {}
    PROVE  RowsType' /\ RowsAgree' /\ Advances
<1>1. RowsType
  BY TypeParts DEF Inv
<1>2. /\ conversation' \in [Conversation -> ConversationRow]
      /\ conversation'[c] = row
      /\ \A b \in Conversation \ {c} : conversation'[b] = conversation[b]
  BY <1>1 DEF RowsType
<1>3. RowsType'
  BY <1>1, <1>2 DEF RowsType
<1>4. ASSUME NEW t \in DOMAIN turn
      PROVE  TurnAgrees(t)' /\ turn[t].conversation \in Conversation
  <2>1. TurnAgrees(t) /\ turn[t].conversation \in Conversation
    BY TurnsType DEF Inv, RowsAgree, TurnRow
  <2>2. QED  BY <1>2, <2>1 DEF TurnAgrees
<1>5. ASSUME NEW b \in Conversation
      PROVE  ConversationAgrees(b)'
  BY <1>2 DEF Inv, RowsAgree, ConversationAgrees
<1>6. ASSUME NEW t \in DOMAIN turn, turn[t].state = "running"
      PROVE  conversation'[turn[t].conversation].version =
                conversation[turn[t].conversation].version
  BY <1>2, <1>4, <1>6 DEF RunningTurns, Inv, RowsAgree, TurnAgrees
<1>7. Advances
  BY <1>6 DEF Advances
<1>8. QED  BY <1>3, <1>4, <1>5, <1>7 DEF RowsAgree

LEMMA CreateTopicStep ==
    ASSUME Inv, NEW c \in Conversation, NEW s \in Scope, CreateTopic(c, s)
    PROVE  Inv' /\ Advances
<1> DEFINE row == [conversation[c] EXCEPT !.state = "idle", !.scope = s]
<1>1. conversation[c] \in ConversationRow
  BY TypeParts DEF Inv, RowsType
<1>2. row \in ConversationRow /\ row.state = "idle"
  BY <1>1 DEF ConversationRow, ConversationStates
<1>3. conversation' = [conversation EXCEPT ![c] = row]
  BY <1>1, TypeParts DEF CreateTopic, Inv, RowsType
<1> HIDE DEF row
<1>4. RowsType' /\ RowsAgree' /\ Advances
  BY <1>2, <1>3, RewriteConversation DEF CreateTopic
<1>5. OtherType'
  BY TypeParts, NothingChangedType DEF CreateTopic, Inv
<1>6. QED
  BY <1>4, <1>5, ProcessesWait, RequestsStay, TypeNext DEF CreateTopic, Inv

LEMMA ArchiveTopicStep ==
    ASSUME Inv, NEW c \in Conversation, ArchiveTopic(c)
    PROVE  Inv' /\ Advances
<1> DEFINE state == IF conversation[c].state \in {"running", "reconciliation_required"}
                    THEN conversation[c].state ELSE "archived"
           row == [conversation[c] EXCEPT !.archived = TRUE, !.state = state]
<1>1. conversation[c] \in ConversationRow
  BY TypeParts DEF Inv, RowsType
<1>2. state \in ConversationStates
  BY <1>1 DEF ConversationRow, ConversationStates
<1>3. /\ row \in ConversationRow /\ row.state = state
      /\ row.current = conversation[c].current /\ row.scope = conversation[c].scope
      /\ row.version = conversation[c].version
  BY <1>1, <1>2 DEF ConversationRow
<1>4. conversation' = [conversation EXCEPT ![c] = row]
  BY <1>1, TypeParts DEF ArchiveTopic, Inv, RowsType
<1>5. \/ conversation[c].state \notin {"running", "reconciliation_required"}
         /\ row.state # "running"
      \/ row.state = conversation[c].state
  BY <1>3
<1> HIDE DEF row
<1>6. RowsType' /\ RowsAgree' /\ Advances
  BY <1>3, <1>4, <1>5, RewriteConversation DEF ArchiveTopic
<1>7. OtherType'
  BY TypeParts, NothingChangedType DEF ArchiveTopic, Inv
<1>8. QED
  BY <1>6, <1>7, ProcessesWait, RequestsStay, TypeNext DEF ArchiveTopic, Inv

LEMMA BeginExportStep ==
    ASSUME Inv, NEW k \in Requests, NEW c \in Conversation, BeginExport(k, c)
    PROVE  Inv' /\ Advances
<1>1. RowsType' /\ RowsAgree' /\ Advances
  BY RowsStay DEF BeginExport, rows
<1>2. conversation[c].version \in 1..MaxVersion /\ conversation[c].version < MaxVersion
  BY TypeParts DEF Inv, RowsType, ConversationRow, BeginExport
<1>3. /\ request' \in [Requests ->
            {NoRequest} \union [conversation : Conversation, captured : 1..MaxVersion]]
      /\ request'[k].captured = conversation[c].version
      /\ \A j \in Requests \ {k} : request'[j] = request[j]
  BY <1>2, TypeParts DEF BeginExport, Snapshot, Inv, OtherType
<1>4. OtherType'
  BY <1>3, TypeParts DEF OtherType, BeginExport, Inv
<1>5. \A j \in Requests : RequestAgrees(j)'
  BY <1>2, <1>3 DEF RequestAgrees, Inv
<1>6. QED  BY <1>1, <1>4, <1>5, ProcessesWait, TypeNext DEF BeginExport, Inv

LEMMA SubmitTurnStep ==
    ASSUME Inv, NEW c \in Conversation, SubmitTurn(c)
    PROVE  Inv' /\ Advances
<1> DEFINE x == [conversation |-> c, state |-> "queued", claimed_by |-> "none", route |-> 0]
           n == Len(turn) + 1
<1>1. RowsType /\ TypeOK
  BY TypeParts DEF Inv
<1>2. x \in TurnRow
  BY BoundsAssumption DEF TurnRow, TurnStates
<1>3. /\ turn' \in Seq(TurnRow) /\ Len(turn') <= MaxTurns
      /\ DOMAIN turn' = DOMAIN turn \union {n} /\ n \notin DOMAIN turn
      /\ turn'[n].conversation = c /\ turn'[n].state = "queued"
      /\ \A t \in DOMAIN turn : turn'[t] = turn[t]
  BY <1>1, <1>2, AppendedTurn DEF SubmitTurn
<1>4. /\ conversation' \in [Conversation -> ConversationRow]
      /\ \A b \in Conversation : conversation'[b].version = conversation[b].version
      /\ \A b \in Conversation :
            \/ conversation'[b] = conversation[b]
            \/ /\ conversation[b].state \notin {"running", "reconciliation_required"}
               /\ conversation'[b].state \notin {"running", "reconciliation_required"}
  BY <1>1 DEF SubmitTurn, RowsType, ConversationRow, ConversationStates
<1>5. RowsType'
  BY <1>1, <1>3, <1>4 DEF RowsType, SubmitTurn
<1>6. ASSUME NEW t \in DOMAIN turn'
      PROVE  TurnAgrees(t)'
  <2>1. CASE t = n
    BY <1>3, <2>1 DEF TurnAgrees
  <2>2. CASE t \in DOMAIN turn
    <3>1. /\ TurnAgrees(t) /\ turn'[t] = turn[t] /\ turn[t].conversation \in Conversation
          /\ UNCHANGED lease
      BY <1>1, <1>3, <2>2, TurnsType DEF Inv, RowsAgree, TurnRow, SubmitTurn
    <3>2. QED  BY <1>4, <3>1 DEF TurnAgrees
  <2>3. QED  BY <1>3, <2>1, <2>2
<1>7. ASSUME NEW b \in Conversation
      PROVE  ConversationAgrees(b)'
  BY <1>3, <1>4 DEF ConversationAgrees, Inv, RowsAgree
<1>8. Advances
  BY <1>1, <1>3, <1>4, TurnsType DEF Advances, TurnRow
<1>9. OtherType'
  BY TypeParts, NothingChangedType DEF SubmitTurn, Inv
<1>10. QED
  BY <1>5, <1>6, <1>7, <1>8, <1>9, ProcessesWait, RequestsStay, TypeNext
  DEF SubmitTurn, Inv, RowsAgree

\* The request that is answered is the one that was waiting.
LEMMA RequestAnswered ==
    ASSUME Inv, NEW k \in Requests, request' = [request EXCEPT ![k] = NoRequest],
           UNCHANGED <<change, troubles, lost>>
    PROVE  OtherType' /\ \A j \in Requests : RequestAgrees(j)'
<1>1. OtherType
  BY TypeParts DEF Inv
<1>2. OtherType'
  BY <1>1 DEF OtherType
<1>3. /\ request'[k] = NoRequest
      /\ \A j \in Requests \ {k} : request'[j] = request[j]
  BY <1>1 DEF OtherType
<1>4. QED  BY <1>2, <1>3 DEF RequestAgrees, Inv

LEMMA RequestRow ==
    ASSUME Inv, NEW k \in Requests, request[k] # NoRequest
    PROVE  /\ request[k].conversation \in Conversation
           /\ request[k].captured + 1 \in 1..MaxVersion
<1>1. request[k] \in [conversation : Conversation, captured : 1..MaxVersion]
  BY TypeParts DEF Inv, OtherType
<1>2. request[k].captured < MaxVersion
  BY DEF Inv, RequestAgrees
<1>3. QED  BY <1>1, <1>2, BoundsAssumption

LEMMA BindTopicToProjectStep ==
    ASSUME Inv, BindTopicToProject
    PROVE  Inv' /\ Advances
<1> DEFINE c == request["bind"].conversation
           row == [conversation[c] EXCEPT
                     !.scope = "project", !.version = conversation[c].version + 1, !.state = "idle"]
<1>1. "bind" \in Requests /\ c \in Conversation /\ request["bind"].captured + 1 \in 1..MaxVersion
  BY RequestRow DEF BindTopicToProject, Requests
<1>2. conversation[c] \in ConversationRow
  BY <1>1, TypeParts DEF Inv, RowsType
<1>3. RowsType' /\ RowsAgree' /\ Advances
  <2>1. CASE Bindable(c, request["bind"].captured)
    <3>1. row \in ConversationRow /\ row.state = "idle"
      BY <1>1, <1>2, <2>1 DEF Bindable, ConversationRow, ConversationStates, Scope
    <3>2. conversation' = [conversation EXCEPT ![c] = row]
      BY <1>1, <2>1, TypeParts DEF BindTopicToProject, BoundConversation, Inv, RowsType
    <3>3. conversation[c].state \notin {"running", "reconciliation_required"}
      BY <2>1 DEF Bindable
    <3> HIDE DEF row, c
    <3>4. QED  BY <1>1, <3>1, <3>2, <3>3, RewriteConversation DEF BindTopicToProject
  <2>2. CASE ~Bindable(c, request["bind"].captured)
    BY <2>2, RowsStay DEF BindTopicToProject, rows
  <2>3. QED  BY <2>1, <2>2
<1>4. OtherType' /\ \A k \in Requests : RequestAgrees(k)'
  BY <1>1, RequestAnswered DEF BindTopicToProject
<1>5. QED  BY <1>3, <1>4, ProcessesWait, TypeNext DEF BindTopicToProject, Inv

LEMMA SwitchConversationModelStep ==
    ASSUME Inv, SwitchConversationModel
    PROVE  Inv' /\ Advances
<1> DEFINE c == request["switch"].conversation
           state == IF conversation[c].state = "failed" THEN "idle" ELSE conversation[c].state
           row == [conversation[c] EXCEPT
                     !.version = conversation[c].version + 1, !.state = state]
<1>1. /\ "switch" \in Requests /\ c \in Conversation
      /\ request["switch"].captured + 1 \in 1..MaxVersion
  BY RequestRow DEF SwitchConversationModel, Requests
<1>2. conversation[c] \in ConversationRow
  BY <1>1, TypeParts DEF Inv, RowsType
<1>3. RowsType' /\ RowsAgree' /\ Advances
  <2>1. CASE Switchable(c, request["switch"].captured)
    <3>1. state \in ConversationStates
      BY <1>2 DEF ConversationRow, ConversationStates
    <3>2. /\ row \in ConversationRow /\ row.state = state
          /\ row.current = conversation[c].current /\ row.scope = conversation[c].scope
      BY <1>1, <1>2, <2>1, <3>1 DEF Switchable, ConversationRow
    <3>3. conversation' = [conversation EXCEPT ![c] = row]
      BY <1>1, <2>1, TypeParts
      DEF SwitchConversationModel, SwitchedConversation, Inv, RowsType
    <3>4. RunningTurns(c) = {}
      BY <2>1 DEF Switchable
    <3>5. \/ conversation[c].state \notin {"running", "reconciliation_required"}
             /\ row.state # "running"
          \/ row.state = conversation[c].state
      BY <3>2
    <3> HIDE DEF row, c, state
    <3>6. QED
      BY <1>1, <3>2, <3>3, <3>4, <3>5, RewriteConversation DEF SwitchConversationModel
  <2>2. CASE ~Switchable(c, request["switch"].captured)
    BY <2>2, RowsStay DEF SwitchConversationModel, rows
  <2>3. QED  BY <2>1, <2>2
<1>4. OtherType' /\ \A k \in Requests : RequestAgrees(k)'
  BY <1>1, RequestAnswered DEF SwitchConversationModel
<1>5. QED  BY <1>3, <1>4, ProcessesWait, TypeNext DEF SwitchConversationModel, Inv

-----------------------------------------------------------------------------
(* Leases.                                                                 *)

\* A step of one scope: the daemon of the other scope waits.
LEMMA StepOfScope ==
    ASSUME Inv, NEW s \in Scope, RowsType', RowsAgree', Advances, lease \ {s} \subseteq lease',
           daemon' = [daemon EXCEPT ![s] = daemon'[s]], daemon'[s] \in DaemonRow,
           pi' = [pi EXCEPT ![s] = pi'[s]], pi'[s] \in [Conversation -> PiRow],
           OtherType', UNCHANGED request, DaemonAgrees(s)'
    PROVE  Inv'
<1>1. ProcessType
  BY TypeParts DEF Inv
<1>2. /\ ProcessType'
      /\ \A r \in Scope \ {s} : daemon'[r] = daemon[r] /\ pi'[r] = pi[r]
  BY <1>1 DEF ProcessType
<1>3. ASSUME NEW r \in Scope \ {s}
      PROVE  DaemonAgrees(r)'
  <2>1. ProcessesStay(r)
    BY <1>2 DEF ProcessesStay
  <2>2. daemon[r].token = "live" => r \in lease
    BY DEF Inv, DaemonAgrees
  <2>3. QED  BY <1>2, <2>1, <2>2, DaemonWaits
<1>4. \A r \in Scope : DaemonAgrees(r)'
  BY <1>3
<1>5. QED  BY <1>2, <1>4, RequestsStay, TypeNext DEF Inv

\* What a step of the scope leaves as it was.
LEMMA ScopeType ==
    ASSUME Inv, NEW s \in Scope
    PROVE  /\ daemon[s] \in DaemonRow /\ pi[s] \in [Conversation -> PiRow]
           /\ UNCHANGED daemon => daemon' = [daemon EXCEPT ![s] = daemon'[s]]
           /\ UNCHANGED pi => pi' = [pi EXCEPT ![s] = pi'[s]]
           /\ \A d : daemon' = [daemon EXCEPT ![s] = d] =>
                 daemon'[s] = d /\ daemon' = [daemon EXCEPT ![s] = daemon'[s]]
           /\ \A p : pi' = [pi EXCEPT ![s] = p] =>
                 pi'[s] = p /\ pi' = [pi EXCEPT ![s] = pi'[s]]
<1>1. daemon \in [Scope -> DaemonRow] /\ pi \in [Scope -> [Conversation -> PiRow]]
  BY TypeParts DEF Inv, ProcessType
<1>2. daemon[s] \in DaemonRow /\ pi[s] \in [Conversation -> PiRow]
  BY <1>1
<1>3. UNCHANGED daemon => daemon' = [daemon EXCEPT ![s] = daemon'[s]]
  BY <1>1
<1>4. UNCHANGED pi => pi' = [pi EXCEPT ![s] = pi'[s]]
  BY <1>1
<1>5. \A d : daemon' = [daemon EXCEPT ![s] = d] =>
         daemon'[s] = d /\ daemon' = [daemon EXCEPT ![s] = daemon'[s]]
  BY <1>1
<1>6. \A p : pi' = [pi EXCEPT ![s] = p] =>
         pi'[s] = p /\ pi' = [pi EXCEPT ![s] = pi'[s]]
  BY <1>1
<1>7. QED  BY <1>2, <1>3, <1>4, <1>5, <1>6

LEMMA TokenType ==
    ASSUME Inv, NEW s \in Scope, NEW token \in Tokens
    PROVE  /\ [daemon[s] EXCEPT !.token = token] \in DaemonRow
           /\ [daemon[s] EXCEPT !.token = token].token = token
           /\ [daemon[s] EXCEPT !.token = token].pc = daemon[s].pc
           /\ [daemon[s] EXCEPT !.token = token].turn = daemon[s].turn
           /\ [daemon[s] EXCEPT !.token = token].version = daemon[s].version
BY ScopeType DEF DaemonRow

LEMMA RegisterLeaseStep ==
    ASSUME Inv, NEW s \in Scope, RegisterLease(s)
    PROVE  Inv' /\ Advances
<1> DEFINE d == [daemon[s] EXCEPT !.token = "live"]
<1>1. RowsType' /\ RowsAgree' /\ Advances
  <2>1. RowsType'
    BY TypeParts DEF RegisterLease, Inv, RowsType
  <2>2. RowsAgree'
    BY DEF RegisterLease, Inv, RowsAgree, TurnAgrees, ConversationAgrees
  <2>3. Advances
    BY DEF RegisterLease, Advances
  <2>4. QED  BY <2>1, <2>2, <2>3
<1>2. /\ daemon' = [daemon EXCEPT ![s] = daemon'[s]] /\ daemon'[s] = d
      /\ UNCHANGED pi /\ pi' = [pi EXCEPT ![s] = pi'[s]]
  BY ScopeType DEF RegisterLease
<1>3. /\ d \in DaemonRow /\ d.token = "live" /\ d.pc = daemon[s].pc
      /\ d.turn = daemon[s].turn /\ d.version = daemon[s].version
  BY TokenType DEF Tokens
<1>4. lease' = lease \union {s}
  BY DEF RegisterLease
<1> HIDE DEF d
<1>5. ProcessesStay(s)
  BY <1>2 DEF ProcessesStay
<1>6. DaemonAgrees(s)'
  BY <1>1, <1>2, <1>3, <1>4, <1>5, DaemonWaits
<1>7. OtherType'
  BY TypeParts, NothingChangedType DEF RegisterLease, Inv
<1>8. QED
  BY <1>1, <1>2, <1>3, <1>4, <1>6, <1>7, ScopeType, StepOfScope DEF RegisterLease

LEMMA OrphanedLeaseExpiresStep ==
    ASSUME Inv, NEW s \in Scope, OrphanedLeaseExpires(s)
    PROVE  Inv' /\ Advances
<1>1. RowsType' /\ RowsAgree' /\ Advances /\ lease' = lease \ {s}
  BY EndLeaseRows DEF OrphanedLeaseExpires, EndLease
<1>2. UNCHANGED daemon /\ UNCHANGED pi /\ daemon[s].token = "none"
  BY DEF OrphanedLeaseExpires
<1>3. ProcessesStay(s)
  BY <1>2 DEF ProcessesStay
<1>4. DaemonAgrees(s)'
  BY <1>1, <1>2, <1>3, DaemonWaits
<1>5. OtherType'
  BY TypeParts, NothingChangedType DEF OrphanedLeaseExpires, Inv
<1>6. QED
  BY <1>1, <1>2, <1>4, <1>5, ScopeType, StepOfScope DEF OrphanedLeaseExpires

LEMMA LeaseExpiresStep ==
    ASSUME Inv, NEW s \in Scope, LeaseExpires(s)
    PROVE  Inv' /\ Advances
<1> DEFINE d == [daemon[s] EXCEPT !.token = "lost"]
<1>1. RowsType' /\ RowsAgree' /\ Advances /\ lease' = lease \ {s}
  BY EndLeaseRows DEF LeaseExpires, EndLease
<1>2. /\ daemon' = [daemon EXCEPT ![s] = daemon'[s]] /\ daemon'[s] = d
      /\ UNCHANGED pi /\ pi' = [pi EXCEPT ![s] = pi'[s]]
  BY ScopeType DEF LeaseExpires
<1>3. /\ d \in DaemonRow /\ d.token = "lost" /\ d.pc = daemon[s].pc
      /\ d.turn = daemon[s].turn /\ d.version = daemon[s].version
  BY TokenType DEF Tokens
<1> HIDE DEF d
<1>4. ProcessesStay(s)
  BY <1>2 DEF ProcessesStay
<1>5. DaemonAgrees(s)'
  BY <1>1, <1>2, <1>3, <1>4, DaemonWaits
<1>6. OtherType'
  BY TypeParts, NothingChangedType DEF LeaseExpires, Inv
<1>7. QED
  BY <1>1, <1>2, <1>3, <1>5, <1>6, ScopeType, StepOfScope DEF LeaseExpires

LEMMA DiesStep ==
    ASSUME Inv, NEW s \in Scope, Dies(s), RowsType', RowsAgree', Advances,
           lease \ {s} \subseteq lease', OtherType', UNCHANGED request
    PROVE  Inv'
<1>1. /\ daemon' = [daemon EXCEPT ![s] = daemon'[s]] /\ daemon'[s] = NoDaemon
      /\ pi' = [pi EXCEPT ![s] = pi'[s]] /\ pi'[s] = NoProcesses
  BY ScopeType DEF Dies
<1>2. NoDaemon \in DaemonRow
  BY RestType, TypeParts DEF Inv
<1>3. NoProcesses \in [Conversation -> PiRow]
  BY NoPiType DEF NoProcesses
<1>4. DaemonAgrees(s)'
  BY <1>1 DEF DaemonAgrees, NoDaemon
<1>5. QED  BY <1>1, <1>2, <1>3, <1>4, StepOfScope

LEMMA KillDaemonStep ==
    ASSUME Inv, NEW s \in Scope, KillDaemon(s)
    PROVE  Inv' /\ Advances
<1>1. RowsType' /\ RowsAgree' /\ Advances /\ UNCHANGED lease
  BY RowsStay DEF KillDaemon, rows
<1>2. OtherType'
  BY TypeParts, NothingChangedType DEF KillDaemon, Inv
<1>3. QED  BY <1>1, <1>2, DiesStep DEF KillDaemon

LEMMA StopDaemonStep ==
    ASSUME Inv, NEW s \in Scope, StopDaemon(s)
    PROVE  Inv' /\ Advances
<1>1. RowsType' /\ RowsAgree' /\ Advances /\ lease \ {s} \subseteq lease'
  <2>1. CASE EndLease(s)
    BY <2>1, EndLeaseRows DEF EndLease
  <2>2. CASE UNCHANGED rows
    BY <2>2, RowsStay DEF rows
  <2>3. QED  BY <2>1, <2>2 DEF StopDaemon
<1>2. OtherType'
  BY TypeParts, NothingChangedType DEF StopDaemon, Inv
<1>3. QED  BY <1>1, <1>2, DiesStep DEF StopDaemon

-----------------------------------------------------------------------------
(* The daemon's loop.                                                      *)

LEMMA ReadableProcessesStay ==
    ASSUME Inv, NEW s \in Scope, pi' = [pi EXCEPT ![s] = ReadableProcesses(s)]
    PROVE  /\ pi' = [pi EXCEPT ![s] = pi'[s]] /\ pi'[s] \in [Conversation -> PiRow]
           /\ ProcessesStay(s)
<1>1. pi'[s] = ReadableProcesses(s) /\ pi' = [pi EXCEPT ![s] = pi'[s]]
  BY ScopeType
<1>2. \A c \in Conversation : pi'[s][c] = NoPi \/ pi'[s][c] = pi[s][c]
  BY <1>1 DEF ReadableProcesses
<1>3. ReadableProcesses(s) \in [Conversation -> PiRow]
  BY NoPiType, ScopeType DEF ReadableProcesses
<1>4. QED  BY <1>1, <1>2, <1>3 DEF ProcessesStay

LEMMA ClaimConversationTurnStep ==
    ASSUME Inv, NEW s \in Scope, ClaimConversationTurn(s)
    PROVE  Inv' /\ Advances
<1>1. /\ pi' = [pi EXCEPT ![s] = pi'[s]] /\ pi'[s] \in [Conversation -> PiRow]
      /\ ProcessesStay(s)
  BY ReadableProcessesStay DEF ClaimConversationTurn
<1>2. OtherType' /\ UNCHANGED lease /\ UNCHANGED request
  BY TypeParts, NothingChangedType DEF ClaimConversationTurn, Inv
<1>3. DaemonAgrees(s) /\ daemon[s] \in DaemonRow
  BY ScopeType DEF Inv
<1>4. CASE \E t \in DOMAIN turn :
              /\ daemon[s].token = "live"
              /\ ClaimTurn(s, t)
              /\ daemon' = [daemon EXCEPT ![s] =
                    [@ EXCEPT !.pc = "claimed", !.turn = t,
                              !.version = conversation[turn[t].conversation].version]]
  <2>1. PICK t \in DOMAIN turn :
              /\ daemon[s].token = "live"
              /\ ClaimTurn(s, t)
              /\ daemon' = [daemon EXCEPT ![s] =
                    [@ EXCEPT !.pc = "claimed", !.turn = t,
                              !.version = conversation[turn[t].conversation].version]]
    BY <1>4
  <2> DEFINE c == turn[t].conversation
             d == [daemon[s] EXCEPT !.pc = "claimed", !.turn = t,
                                    !.version = conversation[c].version]
  <2>2. s \in lease
    BY <1>3, <2>1 DEF DaemonAgrees
  <2>3. /\ RowsType' /\ RowsAgree' /\ Advances /\ DOMAIN turn' = DOMAIN turn
        /\ turn'[t].conversation = c /\ turn'[t].state = "running"
        /\ \A b \in Conversation : conversation'[b].version = conversation[b].version
    BY <1>2, <2>1, <2>2, ClaimTurnRows
  <2>4. c \in Conversation /\ t \in 0..MaxTurns
    BY TurnsType DEF Inv, TurnRow
  <2>5. conversation[c].version \in 0..MaxVersion
    BY <2>4, TypeParts DEF Inv, RowsType, ConversationRow
  <2>6. daemon'[s] = d /\ daemon' = [daemon EXCEPT ![s] = daemon'[s]]
    BY <2>1, ScopeType
  <2>7. /\ d \in DaemonRow /\ d.pc = "claimed" /\ d.turn = t
        /\ d.version = conversation[c].version
    BY <1>3, <2>4, <2>5 DEF DaemonRow, Steps
  <2> HIDE DEF d
  <2>8. DaemonAgrees(s)'
    BY <1>2, <2>2, <2>3, <2>4, <2>6, <2>7 DEF DaemonAgrees
  <2>9. QED  BY <1>1, <1>2, <2>3, <2>6, <2>7, <2>8, StepOfScope
<1>5. CASE UNCHANGED <<conversation, turn, daemon>>
  <2>1. RowsType' /\ RowsAgree' /\ Advances
    BY <1>2, <1>5, RowsStay DEF rows
  <2>2. daemon[s].token = "live" => s \in lease'
    BY <1>2, <1>3 DEF DaemonAgrees
  <2>3. DaemonAgrees(s)'
    BY <1>1, <1>5, <2>1, <2>2, DaemonWaits
  <2>4. UNCHANGED daemon
    BY <1>5
  <2>5. QED  BY <1>1, <1>2, <1>3, <2>1, <2>3, <2>4, ScopeType, StepOfScope
<1>6. QED  BY <1>4, <1>5 DEF ClaimConversationTurn

LEMMA ClaimIsLostStep ==
    ASSUME Inv, NEW s \in Scope, ClaimIsLost(s)
    PROVE  Inv' /\ Advances
<1>1. /\ pi' = [pi EXCEPT ![s] = pi'[s]] /\ pi'[s] \in [Conversation -> PiRow]
      /\ ProcessesStay(s)
  BY ReadableProcessesStay DEF ClaimIsLost
<1>2. /\ OtherType' /\ UNCHANGED lease /\ UNCHANGED request /\ UNCHANGED daemon
  BY TypeParts, NothingChangedType DEF ClaimIsLost, Inv
<1>3. s \in lease
  BY DEF ClaimIsLost, Inv, DaemonAgrees
<1>4. RowsType' /\ RowsAgree' /\ Advances
  BY <1>2, <1>3, ClaimTurnRows DEF ClaimIsLost
<1>5. DaemonAgrees(s)'
  BY <1>1, <1>2, <1>3, <1>4, DaemonWaits
<1>6. QED  BY <1>1, <1>2, <1>4, <1>5, ScopeType, StepOfScope

\* The turn a daemon is at work on.
LEMMA WorkRow ==
    ASSUME Inv, NEW s \in Scope, daemon[s].pc # "idle"
    PROVE  /\ daemon[s].turn \in DOMAIN turn /\ turn[daemon[s].turn] \in TurnRow
           /\ turn[daemon[s].turn].conversation \in Conversation
           /\ turn[daemon[s].turn].state # "queued"
           /\ daemon[s].turn \in 0..MaxTurns
BY SMTT(20), TurnsType DEF Inv, DaemonAgrees, TurnRow

\* The next step of the same claim.
LEMMA StepType ==
    ASSUME Inv, NEW s \in Scope, NEW step \in Steps, daemon' = [daemon EXCEPT ![s].pc = step]
    PROVE  /\ daemon' = [daemon EXCEPT ![s] = daemon'[s]] /\ daemon'[s] \in DaemonRow
           /\ daemon'[s].pc = step /\ daemon'[s].token = daemon[s].token
           /\ daemon'[s].turn = daemon[s].turn /\ daemon'[s].version = daemon[s].version
<1>1. daemon[s] \in DaemonRow
  BY ScopeType
<1>2. daemon' = [daemon EXCEPT ![s] = [daemon[s] EXCEPT !.pc = step]]
  BY TypeParts DEF Inv, ProcessType
<1>3. daemon'[s] = [daemon[s] EXCEPT !.pc = step]
      /\ daemon' = [daemon EXCEPT ![s] = daemon'[s]]
  BY <1>2, ScopeType
<1>4. /\ [daemon[s] EXCEPT !.pc = step] \in DaemonRow
      /\ [daemon[s] EXCEPT !.pc = step].pc = step
      /\ [daemon[s] EXCEPT !.pc = step].token = daemon[s].token
      /\ [daemon[s] EXCEPT !.pc = step].turn = daemon[s].turn
      /\ [daemon[s] EXCEPT !.pc = step].version = daemon[s].version
  BY <1>1 DEF DaemonRow
<1>5. QED  BY <1>3, <1>4

\* One process of the scope is another now.
LEMMA OneProcessType ==
    ASSUME Inv, NEW s \in Scope, NEW c \in Conversation, NEW p \in PiRow,
           pi' = [pi EXCEPT ![s] = [pi[s] EXCEPT ![c] = p]]
    PROVE  /\ pi' = [pi EXCEPT ![s] = pi'[s]] /\ pi'[s] \in [Conversation -> PiRow]
           /\ pi'[s][c] = p /\ \A b \in Conversation \ {c} : pi'[s][b] = pi[s][b]
<1>1. pi[s] \in [Conversation -> PiRow]
  BY ScopeType
<1>2. pi' = [pi EXCEPT ![s] = pi'[s]] /\ pi'[s] = [pi[s] EXCEPT ![c] = p]
  BY ScopeType
<1>3. QED  BY <1>1, <1>2

LEMMA OpenSessionStep ==
    ASSUME Inv, NEW s \in Scope, OpenSession(s)
    PROVE  Inv' /\ Advances
<1> DEFINE t == daemon[s].turn
           c == turn[t].conversation
           p == [NoPi EXCEPT !.version = daemon[s].version]
<1>1. daemon[s].pc = "claimed" /\ daemon' = [daemon EXCEPT ![s].pc = "opened"]
  BY DEF OpenSession, At
<1>2. t \in DOMAIN turn /\ c \in Conversation /\ DaemonAgrees(s)
  BY <1>1, WorkRow DEF Inv
<1>3. RowsType' /\ RowsAgree' /\ Advances /\ UNCHANGED rows
  BY RowsStay DEF OpenSession
<1>4. OtherType' /\ UNCHANGED request
  BY TypeParts, NothingChangedType DEF OpenSession, Inv
<1>5. /\ daemon' = [daemon EXCEPT ![s] = daemon'[s]] /\ daemon'[s] \in DaemonRow
      /\ daemon'[s].pc = "opened" /\ daemon'[s].token = daemon[s].token
      /\ daemon'[s].turn = daemon[s].turn /\ daemon'[s].version = daemon[s].version
  BY <1>1, StepType DEF Steps
<1>6. /\ pi' = [pi EXCEPT ![s] = pi'[s]] /\ pi'[s] \in [Conversation -> PiRow]
      /\ pi'[s][c].version = daemon[s].version
  <2>1. CASE Reusable(pi[s][c], daemon[s].version)
    <3>1. UNCHANGED pi
      BY <2>1 DEF OpenSession
    <3>2. QED  BY <2>1, <3>1, ScopeType DEF Reusable
  <2>2. CASE ~Reusable(pi[s][c], daemon[s].version)
    <3>1. daemon[s].version \in 0..MaxVersion
      BY ScopeType DEF DaemonRow
    <3>2. p \in PiRow /\ p.version = daemon[s].version
      BY <3>1, NoPiType DEF PiRow, NoPi
    <3>3. pi' = [pi EXCEPT ![s] = [pi[s] EXCEPT ![c] = p]]
      BY <2>2, TypeParts DEF OpenSession, Inv, ProcessType
    <3> HIDE DEF p
    <3>4. pi' = [pi EXCEPT ![s] = pi'[s]] /\ pi'[s] = [pi[s] EXCEPT ![c] = p]
      BY <3>3, ScopeType
    <3>5. pi'[s] \in [Conversation -> PiRow] /\ pi'[s][c] = p
      BY <1>2, <3>2, <3>4, ScopeType
    <3>6. QED  BY <3>2, <3>4, <3>5
  <2>3. QED  BY <2>1, <2>2
<1>7. DaemonAgrees(s)'
  BY <1>1, <1>2, <1>3, <1>5, <1>6 DEF DaemonAgrees, rows
<1>8. QED  BY <1>3, <1>4, <1>5, <1>6, <1>7, StepOfScope DEF rows

\* A process is gone or goes on; none appears.
LEMMA OneProcessStays ==
    ASSUME Inv, NEW s \in Scope, NEW c \in Conversation, NEW p \in PiRow,
           pi' = [pi EXCEPT ![s] = pi'[s]], pi'[s] = [pi[s] EXCEPT ![c] = p],
           p = NoPi \/ (pi[s][c] # NoPi /\ p.version = pi[s][c].version)
    PROVE  pi'[s] \in [Conversation -> PiRow] /\ ProcessesStay(s)
<1>1. pi[s] \in [Conversation -> PiRow]
  BY ScopeType
<1>2. /\ pi'[s] \in [Conversation -> PiRow] /\ pi'[s][c] = p
      /\ \A b \in Conversation \ {c} : pi'[s][b] = pi[s][b]
  BY <1>1
<1>3. QED  BY <1>2 DEF ProcessesStay

\* A claim that goes on, or fails, on the same rows or on rows that advance.
LEMMA ClaimGoesOn ==
    ASSUME Inv, NEW s \in Scope, Advances, ProcessesStay(s), daemon[s].pc # "idle",
           daemon'[s].turn = daemon[s].turn, daemon'[s].version = daemon[s].version,
           daemon'[s].token = "live" => s \in lease',
           \/ daemon'[s].pc = "failing"
           \/ daemon[s].pc = "prompting" /\ daemon'[s].pc = "prompted"
    PROVE  DaemonAgrees(s)'
<1> DEFINE t == daemon[s].turn
           c == turn[t].conversation
<1>1. DaemonAgrees(s)
  BY DEF Inv
<1>2. /\ t \in DOMAIN turn /\ turn[t].state # "queued" /\ c \in Conversation
      /\ turn'[t].conversation = c
  BY WorkRow DEF Advances
<1>3. /\ t \in DOMAIN turn' /\ turn'[t].state # "queued"
      /\ turn'[t].state = "running" =>
            /\ turn[t].state = "running"
            /\ conversation'[c].version = conversation[c].version
            /\ turn'[t].route \in {turn[t].route, conversation[c].version}
  BY <1>2 DEF Advances
<1>4. pi'[s][c] # NoPi => pi[s][c] # NoPi /\ pi'[s][c].version = pi[s][c].version
  BY <1>2 DEF ProcessesStay
<1>5. QED  BY <1>1, <1>2, <1>3, <1>4 DEF DaemonAgrees

LEMMA OpenSessionFailsStep ==
    ASSUME Inv, NEW s \in Scope, OpenSessionFails(s)
    PROVE  Inv' /\ Advances
<1> DEFINE c == turn[daemon[s].turn].conversation
<1>1. daemon[s].pc = "claimed" /\ daemon' = [daemon EXCEPT ![s].pc = "failing"]
  BY DEF OpenSessionFails, At
<1>2. c \in Conversation /\ DaemonAgrees(s)
  BY <1>1, WorkRow DEF Inv
<1>3. RowsType' /\ RowsAgree' /\ Advances /\ UNCHANGED rows
  BY RowsStay DEF OpenSessionFails
<1>4. OtherType' /\ UNCHANGED request
  BY TypeParts, NothingChangedType DEF OpenSessionFails, Inv
<1>5. /\ daemon' = [daemon EXCEPT ![s] = daemon'[s]] /\ daemon'[s] \in DaemonRow
      /\ daemon'[s].pc = "failing" /\ daemon'[s].token = daemon[s].token
      /\ daemon'[s].turn = daemon[s].turn /\ daemon'[s].version = daemon[s].version
  BY <1>1, StepType DEF Steps
<1>6. pi' = [pi EXCEPT ![s] = pi'[s]] /\ pi'[s] = [pi[s] EXCEPT ![c] = NoPi]
  BY ScopeType DEF OpenSessionFails
<1>7. pi'[s] \in [Conversation -> PiRow] /\ ProcessesStay(s)
  BY <1>2, <1>6, NoPiType, OneProcessStays
<1>8. DaemonAgrees(s)'
  BY <1>1, <1>2, <1>3, <1>5, <1>7, ClaimGoesOn DEF DaemonAgrees, rows
<1>9. QED  BY <1>3, <1>4, <1>5, <1>6, <1>7, <1>8, StepOfScope DEF rows

LEMMA StartConversationRunStep ==
    ASSUME Inv, NEW s \in Scope, StartConversationRun(s)
    PROVE  Inv' /\ Advances
<1> DEFINE t == daemon[s].turn
           c == turn[t].conversation
<1>1. daemon[s].pc = "opened"
  BY DEF StartConversationRun, At
<1>2. /\ t \in DOMAIN turn /\ turn[t] \in TurnRow /\ c \in Conversation
      /\ t \in 0..MaxTurns /\ DaemonAgrees(s)
  BY <1>1, WorkRow DEF Inv
<1>3. OtherType' /\ UNCHANGED request /\ UNCHANGED lease /\ UNCHANGED conversation
  BY TypeParts, NothingChangedType DEF StartConversationRun, Inv
<1>4. CASE ActiveTurnForLease(s, t)
  <2> DEFINE x == [turn[t] EXCEPT !.route = conversation[c].version]
             handler == IF pi[s][c] = NoPi THEN 0 ELSE t
             p == [pi[s][c] EXCEPT !.handler = handler]
  <2>1. /\ turn' = [turn EXCEPT ![t].route = conversation[c].version]
        /\ pi' = [pi EXCEPT ![s][c].handler = handler]
        /\ daemon' = [daemon EXCEPT ![s].pc = "prompting"]
    BY <1>4 DEF StartConversationRun
  <2>2. conversation[c].version \in 0..MaxVersion
    BY <1>2, TypeParts DEF Inv, RowsType, ConversationRow
  <2>3. x \in TurnRow /\ x.conversation = c /\ x.state = turn[t].state
        /\ x.claimed_by = turn[t].claimed_by /\ x.route = conversation[c].version
    BY <1>2, <2>2 DEF TurnRow
  <2>4. turn' = [turn EXCEPT ![t] = x]
    BY <1>2, <2>1, TurnsType DEF Inv
  <2> HIDE DEF x
  <2>5. /\ turn' \in Seq(TurnRow) /\ Len(turn') = Len(turn) /\ DOMAIN turn' = DOMAIN turn
        /\ turn'[t] = x /\ \A u \in DOMAIN turn \ {t} : turn'[u] = turn[u]
    BY <1>2, <2>3, <2>4, OneTurnType DEF Inv
  <2>6. \A u \in DOMAIN turn :
           /\ turn'[u].conversation = turn[u].conversation /\ turn'[u].state = turn[u].state
           /\ turn'[u].claimed_by = turn[u].claimed_by
           /\ u # t => turn'[u].route = turn[u].route
    BY <2>3, <2>5
  <2>7. RowsType'
    BY <1>3, <2>5, TypeParts DEF Inv, RowsType
  <2>8. RowsAgree'
    BY <1>3, <2>5, <2>6 DEF Inv, RowsAgree, TurnAgrees, ConversationAgrees
  <2>9. Advances
    BY <1>3, <2>3, <2>5, <2>6 DEF Advances
  <2>10. /\ daemon' = [daemon EXCEPT ![s] = daemon'[s]] /\ daemon'[s] \in DaemonRow
         /\ daemon'[s].pc = "prompting" /\ daemon'[s].token = daemon[s].token
         /\ daemon'[s].turn = daemon[s].turn /\ daemon'[s].version = daemon[s].version
    BY <2>1, StepType DEF Steps
  <2>11. pi' = [pi EXCEPT ![s] = [pi[s] EXCEPT ![c] = p]]
    <3>1. pi \in [Scope -> [Conversation -> PiRow]]
      BY TypeParts DEF Inv, ProcessType
    <3>2. QED  BY <1>2, <2>1, <3>1
  <2>12. /\ p \in PiRow
         /\ p = NoPi \/ (pi[s][c] # NoPi /\ p.version = pi[s][c].version)
    <3>1. pi[s][c] \in PiRow /\ handler \in 0..MaxTurns
      BY <1>2, ScopeType, BoundsAssumption
    <3>2. p \in PiRow /\ p.version = pi[s][c].version
      BY <3>1 DEF PiRow
    <3>3. pi[s][c] = NoPi => p = NoPi
      BY DEF NoPi
    <3>4. QED  BY <3>2, <3>3
  <2> HIDE DEF p
  <2>13. pi' = [pi EXCEPT ![s] = pi'[s]] /\ pi'[s] = [pi[s] EXCEPT ![c] = p]
    BY <2>11, ScopeType
  <2>14. pi'[s] \in [Conversation -> PiRow] /\ ProcessesStay(s)
    BY <1>2, <2>12, <2>13, OneProcessStays
  <2>15. pi'[s][c] # NoPi => pi[s][c] # NoPi /\ pi'[s][c].version = pi[s][c].version
    BY <1>2, <2>14 DEF ProcessesStay
  <2>16. DaemonAgrees(s)'
    BY <1>1, <1>2, <1>3, <2>3, <2>5, <2>10, <2>15 DEF DaemonAgrees
  <2>17. QED  BY <1>3, <2>7, <2>8, <2>9, <2>10, <2>13, <2>14, <2>16, StepOfScope
<1>5. CASE ~ActiveTurnForLease(s, t)
  <2>1. daemon' = [daemon EXCEPT ![s].pc = "failing"] /\ UNCHANGED turn /\ UNCHANGED pi
    BY <1>5 DEF StartConversationRun
  <2>2. RowsType' /\ RowsAgree' /\ Advances
    BY <1>3, <2>1, RowsStay DEF rows
  <2>3. /\ daemon' = [daemon EXCEPT ![s] = daemon'[s]] /\ daemon'[s] \in DaemonRow
        /\ daemon'[s].pc = "failing" /\ daemon'[s].token = daemon[s].token
        /\ daemon'[s].turn = daemon[s].turn /\ daemon'[s].version = daemon[s].version
    BY <2>1, StepType DEF Steps
  <2>4. ProcessesStay(s)
    BY <2>1 DEF ProcessesStay
  <2>5. daemon'[s].token = "live" => s \in lease'
    BY <1>2, <1>3, <2>3 DEF DaemonAgrees
  <2>6. DaemonAgrees(s)'
    BY <1>1, <2>2, <2>3, <2>4, <2>5, ClaimGoesOn
  <2>7. QED  BY <1>3, <2>1, <2>2, <2>3, <2>6, ScopeType, StepOfScope
<1>6. QED  BY <1>4, <1>5

LEMMA PromptAnsweredStep ==
    ASSUME Inv, NEW s \in Scope, PromptAnswered(s)
    PROVE  Inv' /\ Advances
<1> DEFINE t == daemon[s].turn
           c == turn[t].conversation
           p == [pi[s][c] EXCEPT !.work = t]
<1>1. daemon[s].pc = "prompting" /\ pi[s][c] # NoPi
  BY DEF PromptAnswered, At
<1>2. c \in Conversation /\ t \in 0..MaxTurns /\ DaemonAgrees(s)
  BY <1>1, WorkRow DEF Inv
<1>3. RowsType' /\ RowsAgree' /\ Advances /\ UNCHANGED lease
  BY RowsStay DEF PromptAnswered, rows
<1>4. OtherType' /\ UNCHANGED request
  BY TypeParts, NothingChangedType DEF PromptAnswered, Inv
<1>5. \/ /\ pi' = [pi EXCEPT ![s][c].work = t]
         /\ daemon' = [daemon EXCEPT ![s].pc = "prompted"]
      \/ /\ UNCHANGED pi
         /\ daemon' = [daemon EXCEPT ![s].pc = "failing"]
  BY DEF PromptAnswered
<1>6. /\ daemon' = [daemon EXCEPT ![s] = daemon'[s]] /\ daemon'[s] \in DaemonRow
      /\ daemon'[s].pc \in {"prompted", "failing"} /\ daemon'[s].token = daemon[s].token
      /\ daemon'[s].turn = daemon[s].turn /\ daemon'[s].version = daemon[s].version
  BY <1>5, StepType DEF Steps
<1>7. /\ pi' = [pi EXCEPT ![s] = pi'[s]] /\ pi'[s] \in [Conversation -> PiRow]
      /\ ProcessesStay(s)
  <2>1. CASE UNCHANGED pi
    BY <2>1, ScopeType DEF ProcessesStay
  <2>2. CASE pi' = [pi EXCEPT ![s][c].work = t]
    <3>1. pi \in [Scope -> [Conversation -> PiRow]]
      BY TypeParts DEF Inv, ProcessType
    <3>2. pi' = [pi EXCEPT ![s] = [pi[s] EXCEPT ![c] = p]]
      BY <1>2, <2>2, <3>1
    <3>3. p \in PiRow /\ p.version = pi[s][c].version
      BY <1>2, <3>1 DEF PiRow
    <3> HIDE DEF p
    <3>4. pi' = [pi EXCEPT ![s] = pi'[s]] /\ pi'[s] = [pi[s] EXCEPT ![c] = p]
      BY <3>2, ScopeType
    <3>5. QED  BY ZenonT(40), <1>1, <1>2, <3>3, <3>4, OneProcessStays
  <2>3. QED  BY <1>5, <2>1, <2>2
<1>8. daemon'[s].token = "live" => s \in lease'
  BY <1>2, <1>3, <1>6 DEF DaemonAgrees
<1>9. DaemonAgrees(s)'
  BY <1>1, <1>3, <1>6, <1>7, <1>8, ClaimGoesOn
<1>10. QED  BY <1>3, <1>4, <1>6, <1>7, <1>9, StepOfScope

LEMMA WaitFailsStep ==
    ASSUME Inv, NEW s \in Scope, WaitFails(s)
    PROVE  Inv' /\ Advances
<1>1. daemon[s].pc # "idle" /\ daemon' = [daemon EXCEPT ![s].pc = "failing"] /\ UNCHANGED pi
  BY DEF WaitFails, At
<1>2. RowsType' /\ RowsAgree' /\ Advances /\ UNCHANGED lease
  BY RowsStay DEF WaitFails, rows
<1>3. OtherType' /\ UNCHANGED request
  BY TypeParts, NothingChangedType DEF WaitFails, Inv
<1>4. /\ daemon' = [daemon EXCEPT ![s] = daemon'[s]] /\ daemon'[s] \in DaemonRow
      /\ daemon'[s].pc = "failing" /\ daemon'[s].token = daemon[s].token
      /\ daemon'[s].turn = daemon[s].turn /\ daemon'[s].version = daemon[s].version
  BY <1>1, StepType DEF Steps
<1>5. ProcessesStay(s)
  BY <1>1 DEF ProcessesStay
<1>6. daemon'[s].token = "live" => s \in lease'
  BY <1>2, <1>4 DEF Inv, DaemonAgrees
<1>7. DaemonAgrees(s)'
  BY <1>1, <1>2, <1>4, <1>5, <1>6, ClaimGoesOn
<1>8. QED  BY <1>1, <1>2, <1>3, <1>4, <1>7, ScopeType, StepOfScope

\* The claim is given up: whatever the turn has become, the daemon rests.
LEMMA ClaimGivenUp ==
    ASSUME Inv, NEW s \in Scope, daemon' = [daemon EXCEPT ![s] = Rest(s)],
           UNCHANGED <<lease, pi, request>>, RowsType', RowsAgree', Advances, OtherType'
    PROVE  Inv'
<1>1. daemon[s] \in DaemonRow /\ (daemon[s].token = "live" => s \in lease)
  BY ScopeType DEF Inv, DaemonAgrees
<1>2. Rest(s) \in DaemonRow
  BY RestType, TypeParts DEF Inv
<1>3. Rest(s).pc = "idle" /\ Rest(s).token = daemon[s].token
  BY <1>1 DEF Rest, DaemonRow
<1>4. daemon'[s] = Rest(s) /\ daemon' = [daemon EXCEPT ![s] = daemon'[s]]
  BY ScopeType
<1>5. DaemonAgrees(s)'
  BY <1>1, <1>3, <1>4 DEF DaemonAgrees
<1>6. UNCHANGED pi /\ UNCHANGED lease /\ UNCHANGED request
  OBVIOUS
<1>7. QED  BY <1>2, <1>4, <1>5, <1>6, ScopeType, StepOfScope

\* The answer to a claim: the turn is completed or, when it is no longer the
\* lease's own, left alone.
LEMMA CompletionRows ==
    ASSUME Inv, NEW s \in Scope, daemon[s].pc # "idle", UNCHANGED lease,
           NEW outcome \in {"completed", "failed"},
           IF ActiveTurnForLease(s, daemon[s].turn)
           THEN CompleteTurn(daemon[s].turn, outcome)
           ELSE UNCHANGED <<conversation, turn>>
    PROVE  RowsType' /\ RowsAgree' /\ Advances
<1>1. daemon[s].turn \in DOMAIN turn
  BY WorkRow
<1>2. CASE ActiveTurnForLease(s, daemon[s].turn)
  BY <1>1, <1>2, CompleteTurnRows
<1>3. CASE ~ActiveTurnForLease(s, daemon[s].turn)
  BY <1>3, RowsStay DEF rows
<1>4. QED  BY <1>2, <1>3

LEMMA PostAnswerStep ==
    ASSUME Inv, NEW s \in Scope, PostAnswer(s)
    PROVE  Inv' /\ Advances
<1>1. RowsType' /\ RowsAgree' /\ Advances
  BY CompletionRows DEF PostAnswer, At
<1>2. OtherType'
  BY TypeParts, NothingChangedType DEF PostAnswer, Inv
<1>3. QED  BY <1>1, <1>2, ClaimGivenUp DEF PostAnswer

LEMMA PostFailureStep ==
    ASSUME Inv, NEW s \in Scope, PostFailure(s)
    PROVE  Inv' /\ Advances
<1>1. RowsType' /\ RowsAgree' /\ Advances
  BY CompletionRows DEF PostFailure, At
<1>2. OtherType'
  BY TypeParts, NothingChangedType DEF PostFailure, Inv
<1>3. QED  BY <1>1, <1>2, ClaimGivenUp DEF PostFailure

LEMMA CompletionIsLostStep ==
    ASSUME Inv, NEW s \in Scope, CompletionIsLost(s)
    PROVE  Inv' /\ Advances
<1>1. RowsType' /\ RowsAgree' /\ Advances
  BY RowsStay DEF CompletionIsLost
<1>2. OtherType'
  BY TypeParts, NothingChangedType DEF CompletionIsLost, Inv
<1>3. QED  BY <1>1, <1>2, ClaimGivenUp DEF CompletionIsLost, rows

-----------------------------------------------------------------------------
(* Pi.                                                                     *)

LEMMA PiSettlesStep ==
    ASSUME Inv, NEW s \in Scope, NEW c \in Conversation, PiSettles(s, c)
    PROVE  Inv' /\ Advances
<1> DEFINE p == [pi[s][c] EXCEPT !.work = 0]
           d == [daemon[s] EXCEPT !.settled = TRUE]
<1>1. RowsType' /\ RowsAgree' /\ Advances /\ UNCHANGED lease
  BY RowsStay DEF PiSettles, rows
<1>2. OtherType' /\ UNCHANGED request
  BY TypeParts, NothingChangedType DEF PiSettles, Inv
<1>3. /\ pi \in [Scope -> [Conversation -> PiRow]] /\ daemon \in [Scope -> DaemonRow]
      /\ DaemonAgrees(s)
  BY TypeParts DEF Inv, ProcessType
<1>4. /\ pi' = [pi EXCEPT ![s] = pi'[s]] /\ pi'[s] \in [Conversation -> PiRow]
      /\ ProcessesStay(s)
  <2>1. pi' = [pi EXCEPT ![s] = [pi[s] EXCEPT ![c] = p]]
    BY <1>3 DEF PiSettles
  <2>2. p \in PiRow /\ p.version = pi[s][c].version
    BY <1>3, BoundsAssumption DEF PiRow
  <2>3. pi[s][c] # NoPi
    BY DEF PiSettles, NoPi
  <2> HIDE DEF p
  <2>4. pi' = [pi EXCEPT ![s] = pi'[s]] /\ pi'[s] = [pi[s] EXCEPT ![c] = p]
    BY <2>1, ScopeType
  <2>5. QED  BY <2>2, <2>3, <2>4, OneProcessStays
<1>5. /\ daemon' = [daemon EXCEPT ![s] = daemon'[s]] /\ daemon'[s] \in DaemonRow
      /\ daemon'[s].pc = daemon[s].pc /\ daemon'[s].token = daemon[s].token
      /\ daemon'[s].turn = daemon[s].turn /\ daemon'[s].version = daemon[s].version
  <2>1. CASE UNCHANGED daemon
    BY <2>1, ScopeType
  <2>2. CASE daemon' = [daemon EXCEPT ![s].settled = TRUE]
    <3>1. daemon' = [daemon EXCEPT ![s] = d]
      BY <1>3, <2>2
    <3>2. /\ d \in DaemonRow /\ d.pc = daemon[s].pc /\ d.token = daemon[s].token
          /\ d.turn = daemon[s].turn /\ d.version = daemon[s].version
      BY <1>3 DEF DaemonRow
    <3> HIDE DEF d
    <3>3. daemon'[s] = d /\ daemon' = [daemon EXCEPT ![s] = daemon'[s]]
      BY <3>1, ScopeType
    <3>4. QED  BY <3>2, <3>3
  <2>3. QED  BY <2>1, <2>2 DEF PiSettles
<1>6. daemon'[s].token = "live" => s \in lease'
  BY <1>1, <1>3, <1>5 DEF DaemonAgrees
<1>7. DaemonAgrees(s)'
  BY <1>1, <1>4, <1>5, <1>6, DaemonWaits
<1>8. QED  BY <1>1, <1>2, <1>4, <1>5, <1>7, StepOfScope

LEMMA PiEventRefusedStep ==
    ASSUME Inv, NEW s \in Scope, NEW c \in Conversation, PiEventRefused(s, c)
    PROVE  Inv' /\ Advances
<1>1. RowsType' /\ RowsAgree' /\ Advances /\ UNCHANGED lease
  BY RowsStay DEF PiEventRefused, rows
<1>2. OtherType'
  BY TypeParts, NothingChangedType DEF PiEventRefused, Inv
<1>3. QED  BY <1>1, <1>2, DiesStep DEF PiEventRefused

LEMMA PiChangesTaskStep ==
    ASSUME Inv, NEW s \in Scope, NEW c \in Conversation, PiChangesTask(s, c)
    PROVE  Inv' /\ Advances
<1>1. RowsType' /\ RowsAgree' /\ Advances /\ UNCHANGED <<lease, daemon, pi>>
  BY RowsStay DEF PiChangesTask, rows
<1>2. OtherType /\ pi[s][c] \in PiRow
  BY ScopeType, TypeParts DEF Inv
<1>3. PICK t \in RunningTurns(c) :
         change' = change \union ({<<pi[s][c].work, t>>} \ {<<t, t>>})
  BY DEF PiChangesTask
<1>4. t \in Turns
  BY <1>3, TurnsType DEF Inv, RunningTurns, Turns
<1>5. pi[s][c].work \in Turns
  BY <1>2, BoundsAssumption DEF PiChangesTask, PiRow, Turns
<1>6. change' \subseteq Turns \X Turns
  BY <1>2, <1>3, <1>4, <1>5 DEF OtherType
<1>7. OtherType' /\ UNCHANGED request
  BY <1>2, <1>6 DEF OtherType, PiChangesTask
<1>8. QED  BY <1>1, <1>7, ProcessesWait, RequestsStay, TypeNext DEF Inv

LEMMA PiDiesStep ==
    ASSUME Inv, NEW s \in Scope, NEW c \in Conversation, PiDies(s, c)
    PROVE  Inv' /\ Advances
<1>1. RowsType' /\ RowsAgree' /\ Advances /\ UNCHANGED lease
  BY RowsStay DEF PiDies, rows
<1>2. OtherType' /\ UNCHANGED request
  BY TypeParts, NothingChangedType DEF PiDies, Inv
<1>3. pi' = [pi EXCEPT ![s] = pi'[s]] /\ pi'[s] = [pi[s] EXCEPT ![c] = NoPi]
  BY ScopeType DEF PiDies
<1>4. pi'[s] \in [Conversation -> PiRow] /\ ProcessesStay(s)
  BY <1>3, NoPiType, OneProcessStays
<1>5. CASE daemon[s].pc = "prompted" /\ daemon' = [daemon EXCEPT ![s].pc = "failing"]
  <2>1. /\ daemon' = [daemon EXCEPT ![s] = daemon'[s]] /\ daemon'[s] \in DaemonRow
        /\ daemon'[s].pc = "failing" /\ daemon'[s].token = daemon[s].token
        /\ daemon'[s].turn = daemon[s].turn /\ daemon'[s].version = daemon[s].version
    BY <1>5, StepType DEF Steps
  <2>2. daemon'[s].token = "live" => s \in lease'
    BY <1>1, <2>1 DEF Inv, DaemonAgrees
  <2>3. DaemonAgrees(s)'
    BY <1>1, <1>4, <1>5, <2>1, <2>2, ClaimGoesOn
  <2>4. QED  BY <1>1, <1>2, <1>3, <1>4, <2>1, <2>3, StepOfScope
<1>6. CASE UNCHANGED daemon
  <2>1. daemon[s].token = "live" => s \in lease'
    BY <1>1 DEF Inv, DaemonAgrees
  <2>2. DaemonAgrees(s)'
    BY <1>1, <1>4, <1>6, <2>1, DaemonWaits
  <2>3. QED  BY <1>1, <1>2, <1>3, <1>4, <1>6, <2>2, ScopeType, StepOfScope
<1>7. QED  BY <1>5, <1>6 DEF PiDies, At

-----------------------------------------------------------------------------
(* The invariant.                                                          *)

LEMMA InitInv == Init => Inv
<1> SUFFICES ASSUME Init
             PROVE  Inv
  OBVIOUS
<1>1. /\ 0 \in 0..MaxTurns /\ 0 \in 0..MaxVersion /\ 1 \in 1..MaxVersion
  BY BoundsAssumption
<1>2. RowsType
  <2>1. [state |-> "absent", scope |-> "system_intake", version |-> 1,
         current |-> 0, archived |-> FALSE] \in ConversationRow
    BY <1>1 DEF ConversationRow, ConversationStates, Scope
  <2>2. conversation \in [Conversation -> ConversationRow]
    BY <2>1 DEF Init
  <2>3. turn \in Seq(TurnRow) /\ Len(turn) <= MaxTurns
    BY BoundsAssumption DEF Init
  <2>4. QED  BY <2>2, <2>3 DEF RowsType, Init
<1>3. ProcessType
  <2>1. NoDaemon \in DaemonRow
    BY <1>1 DEF NoDaemon, DaemonRow, Tokens, Steps
  <2>2. daemon \in [Scope -> DaemonRow]
    BY <2>1 DEF Init
  <2>3. pi \in [Scope -> [Conversation -> PiRow]]
    BY NoPiType DEF Init
  <2>4. QED  BY <2>2, <2>3 DEF ProcessType
<1>4. OtherType
  BY BoundsAssumption DEF OtherType, Init
<1>5. DOMAIN turn = {}
  BY DEF Init
<1>6. RowsAgree
  BY <1>5 DEF RowsAgree, ConversationAgrees, Init
<1>7. \A k \in Requests : RequestAgrees(k)
  BY DEF RequestAgrees, Init
<1>8. \A s \in Scope : DaemonAgrees(s)
  BY DEF DaemonAgrees, Init, NoDaemon
<1>9. QED  BY <1>2, <1>3, <1>4, <1>6, <1>7, <1>8, TypeParts DEF Inv

LEMMA NextStep == Inv /\ Next => Inv' /\ Advances
<1> SUFFICES ASSUME Inv, Next
             PROVE  Inv' /\ Advances
  OBVIOUS
<1>1. CASE OwnerStep
  BY <1>1, CreateTopicStep, SubmitTurnStep, ArchiveTopicStep, BeginExportStep,
     BindTopicToProjectStep, SwitchConversationModelStep DEF OwnerStep
<1>2. ASSUME NEW s \in Scope, DaemonStep(s)
      PROVE  Inv' /\ Advances
  BY <1>2, RegisterLeaseStep, ClaimConversationTurnStep, OpenSessionStep,
     StartConversationRunStep, PromptAnsweredStep, WaitFailsStep, PostAnswerStep,
     PostFailureStep DEF DaemonStep
<1>3. ASSUME NEW s \in Scope, NEW c \in Conversation,
             PiSettles(s, c) \/ PiEventRefused(s, c) \/ PiChangesTask(s, c)
      PROVE  Inv' /\ Advances
  BY <1>3, PiSettlesStep, PiEventRefusedStep, PiChangesTaskStep
<1>4. ASSUME NEW s \in Scope, Trouble(s)
      PROVE  Inv' /\ Advances
  BY <1>4, LeaseExpiresStep, KillDaemonStep, StopDaemonStep, ClaimIsLostStep,
     OpenSessionFailsStep, CompletionIsLostStep, PiDiesStep DEF Trouble
<1>5. QED  BY <1>1, <1>2, <1>3, <1>4, OrphanedLeaseExpiresStep DEF Next

LEMMA StutterStep == Inv /\ UNCHANGED vars => Inv' /\ Advances
<1> SUFFICES ASSUME Inv, UNCHANGED vars
             PROVE  Inv' /\ Advances
  OBVIOUS
<1>1. RowsType' /\ RowsAgree' /\ Advances /\ UNCHANGED <<lease, daemon, pi>>
  BY RowsStay DEF vars, rows
<1>2. OtherType' /\ UNCHANGED request
  BY TypeParts, NothingChangedType DEF vars, Inv
<1>3. QED  BY <1>1, <1>2, ProcessesWait, RequestsStay, TypeNext DEF Inv

\* The tables, the daemons, the Pi processes and the owner's waiting requests
\* agree in every reachable state.
THEOREM Invariance == Spec => []Inv
<1>1. Init => Inv
  BY InitInv
<1>2. Inv /\ [Next]_vars => Inv'
  BY NextStep, StutterStep
<1>3. QED  BY <1>1, <1>2, PTL DEF Spec

\* The rows, the daemons and the Pi processes keep their types.
THEOREM TypeCorrect == Spec => []TypeOK
<1>1. Inv => TypeOK
  BY DEF Inv
<1>2. QED  BY <1>1, Invariance, PTL

\* A conversation is running exactly while one turn of it is, and the active
\* lease of its own scope has claimed that turn: whatever lease ends, process
\* dies, export completes or topic is archived, no turn is left running that
\* nobody may complete.
THEOREM Supervision == Spec => []RunningTurnIsSupervised
<1>1. Inv => RunningTurnIsSupervised
  <2> SUFFICES ASSUME Inv
               PROVE  RunningTurnIsSupervised
    OBVIOUS
  <2>1. \A t \in DOMAIN turn : TurnAgrees(t)
    BY DEF Inv, RowsAgree
  <2>2. ASSUME NEW c \in Conversation, conversation[c].state = "running"
        PROVE  RunningTurns(c) # {}
    BY <2>2 DEF Inv, RowsAgree, ConversationAgrees, RunningTurns
  <2>3. QED  BY <2>1, <2>2 DEF RunningTurnIsSupervised, TurnAgrees
<1>2. QED  BY <1>1, Invariance, PTL

\* The Pi process that answers a prompt runs on the route the run has recorded,
\* and that is the route of the conversation.
THEOREM SessionRoute == Spec => []RunMatchesSession
<1>1. Inv => RunMatchesSession
  <2> SUFFICES ASSUME Inv, NEW s \in Scope, daemon[s].pc \in {"prompting", "prompted"},
                      ActiveTurnForLease(s, daemon[s].turn)
               PROVE  LET t == daemon[s].turn
                          c == turn[t].conversation
                      IN  /\ turn[t].route = conversation[c].version
                          /\ pi[s][c] # NoPi => pi[s][c].version = turn[t].route
    BY DEF RunMatchesSession
  <2>1. DaemonAgrees(s)
    BY DEF Inv
  <2>2. QED  BY <2>1 DEF DaemonAgrees, ActiveTurnForLease
<1>2. QED  BY <1>1, Invariance, PTL

\* A turn once taken up is never queued again, one that is over never runs
\* again, and the version of a conversation, its route and its scope, does not
\* change under a running turn.
THEOREM TurnsAdvance == Spec => [][Advances]_vars
<1>1. Inv /\ [Next]_vars => [Advances]_vars
  BY NextStep
<1>2. QED  BY <1>1, Invariance, PTL DEF Spec

-----------------------------------------------------------------------------
(* The promise made to the owner.                                          *)

LedgerNow ==
    [t \in DOMAIN turn |->
        [conversation |-> turn[t].conversation, state |-> LedgerState(turn[t].state)]]

LEMMA LedgerRow ==
    ASSUME Inv, NEW t \in DOMAIN turn
    PROVE  /\ DOMAIN LedgerNow = DOMAIN turn
           /\ LedgerNow[t].conversation = turn[t].conversation
           /\ LedgerNow[t].state = LedgerState(turn[t].state)
BY DEF LedgerNow

LEMMA LedgerStates ==
    /\ LedgerState("queued") = "queued" /\ LedgerState("running") = "running"
    /\ LedgerState("completed") = "settled" /\ LedgerState("failed") = "settled"
    /\ LedgerState("reconciliation_required") = "unknown"
BY DEF LedgerState

\* What becomes of the ledger when some turns take another state.
LEMMA LedgerChange ==
    ASSUME Inv, NEW T \in SUBSET DOMAIN turn, NEW state, DOMAIN turn' = DOMAIN turn,
           \A t \in DOMAIN turn : turn'[t].conversation = turn[t].conversation,
           \A t \in T : LedgerState(turn'[t].state) = state,
           \A t \in DOMAIN turn \ T : turn'[t].state = turn[t].state
    PROVE  LedgerNow' = [t \in DOMAIN LedgerNow |->
              IF t \in T THEN [LedgerNow[t] EXCEPT !.state = state] ELSE LedgerNow[t]]
<1>1. DOMAIN LedgerNow = DOMAIN turn
  BY DEF LedgerNow
<1>2. LedgerNow' = [t \in DOMAIN turn |->
         [conversation |-> turn[t].conversation, state |-> LedgerState(turn'[t].state)]]
  BY DEF LedgerNow
<1>3. ASSUME NEW t \in DOMAIN turn
      PROVE  LedgerNow'[t] =
                IF t \in T THEN [LedgerNow[t] EXCEPT !.state = state] ELSE LedgerNow[t]
  BY <1>2 DEF LedgerNow
<1>4. QED  BY <1>1, <1>2, <1>3

LEMMA SameStates ==
    ASSUME Inv, DOMAIN turn' = DOMAIN turn,
           \A t \in DOMAIN turn : turn'[t].conversation = turn[t].conversation
                                  /\ turn'[t].state = turn[t].state
    PROVE  UNCHANGED LedgerNow
BY DEF LedgerNow

\* A claim takes up the oldest message of a conversation all of whose earlier
\* messages are settled.
LEMMA ClaimStarts ==
    ASSUME Inv, NEW s \in lease, NEW t \in DOMAIN turn, ClaimTurn(s, t), UNCHANGED lease
    PROVE  Ledger!Start(t)
<1> DEFINE c == turn[t].conversation
<1>1. /\ DOMAIN turn' = DOMAIN turn
      /\ turn'[t].conversation = c
      /\ turn[t].state = "queued" /\ turn'[t].state = "running"
      /\ \A u \in DOMAIN turn \ {t} : turn'[u] = turn[u]
  BY ClaimTurnRows
<1>2. /\ conversation[c].scope = s
      /\ conversation[c].state \notin {"running", "reconciliation_required", "archived"}
      /\ \A u \in Claimable(s) : t <= u
  BY DEF ClaimTurn, Claimable
<1>3. DOMAIN turn = 1..Len(turn) /\ Len(turn) \in Nat
  BY TurnsType DEF Inv
<1>4. ASSUME NEW u \in 1..(t - 1), turn[u].conversation = c
      PROVE  turn[u].state \in {"completed", "failed"}
  <2>1. u \in DOMAIN turn /\ u < t /\ t \in Nat /\ u \in Nat
    BY <1>3
  <2>2. turn[u] \in TurnRow /\ TurnAgrees(u)
    BY <2>1, TurnsType DEF Inv, RowsAgree
  <2>3. turn[u].state # "queued"
    <3>1. ~(t <= u)
      BY <2>1
    <3>2. u \notin Claimable(s)
      BY <1>2, <3>1
    <3>3. QED  BY <1>2, <1>4, <2>1, <3>2 DEF Claimable
  <2>4. turn[u].state # "running" /\ turn[u].state # "reconciliation_required"
    BY <1>2, <1>4, <2>2 DEF TurnAgrees
  <2>5. QED  BY <2>2, <2>3, <2>4 DEF TurnRow, TurnStates
<1>5. LedgerNow[t].state = "queued"
  BY <1>1, LedgerRow, LedgerStates
<1>6. \A u \in 1..(t - 1) :
         LedgerNow[u].conversation = LedgerNow[t].conversation
            => LedgerNow[u].state = "settled"
  <2>1. ASSUME NEW u \in 1..(t - 1)  PROVE u \in DOMAIN turn
    BY <1>3
  <2>2. QED  BY <1>4, <2>1, LedgerRow, LedgerStates
<1>7. LedgerNow' = [LedgerNow EXCEPT ![t].state = "running"]
  <2>1. LedgerNow' = [u \in DOMAIN LedgerNow |->
           IF u \in {t} THEN [LedgerNow[u] EXCEPT !.state = "running"] ELSE LedgerNow[u]]
    <3>1. {t} \in SUBSET DOMAIN turn
      OBVIOUS
    <3>2. \A u \in {t} : LedgerState(turn'[u].state) = "running"
      BY <1>1, LedgerStates
    <3>3. /\ \A u \in DOMAIN turn : turn'[u].conversation = turn[u].conversation
          /\ \A u \in DOMAIN turn \ {t} : turn'[u].state = turn[u].state
      BY <1>1
    <3>4. DOMAIN turn' = DOMAIN turn
      BY <1>1
    <3>5. QED  BY ZenonT(40), <3>1, <3>2, <3>3, <3>4, LedgerChange
  <2>2. QED  BY <2>1 DEF LedgerNow
<1>8. QED  BY <1>5, <1>6, <1>7 DEF Ledger!Start, LedgerNow

LEMMA CompletionSettles ==
    ASSUME Inv, NEW s \in Scope, NEW t \in DOMAIN turn, NEW outcome \in {"completed", "failed"},
           ActiveTurnForLease(s, t), CompleteTurn(t, outcome), UNCHANGED lease
    PROVE  Ledger!Settle(t)
<1>1. /\ DOMAIN turn' = DOMAIN turn
      /\ turn'[t].conversation = turn[t].conversation
      /\ turn'[t].state = outcome /\ turn[t].state = "running"
      /\ \A u \in DOMAIN turn \ {t} : turn'[u] = turn[u]
  BY CompleteTurnRows DEF ActiveTurnForLease
<1>2. LedgerNow[t].state = "running"
  BY <1>1, LedgerRow, LedgerStates
<1>3. LedgerNow' = [u \in DOMAIN LedgerNow |->
         IF u \in {t} THEN [LedgerNow[u] EXCEPT !.state = "settled"] ELSE LedgerNow[u]]
  <2>1. {t} \in SUBSET DOMAIN turn
    OBVIOUS
  <2>2. \A u \in {t} : LedgerState(turn'[u].state) = "settled"
    BY <1>1, LedgerStates
  <2>3. /\ \A u \in DOMAIN turn : turn'[u].conversation = turn[u].conversation
        /\ \A u \in DOMAIN turn \ {t} : turn'[u].state = turn[u].state
    BY <1>1
  <2>4. DOMAIN turn' = DOMAIN turn
    BY <1>1
  <2>5. QED  BY ZenonT(40), <2>1, <2>2, <2>3, <2>4, LedgerChange
<1>4. LedgerNow' = [LedgerNow EXCEPT ![t].state = "settled"]
  BY <1>3 DEF LedgerNow
<1>5. QED  BY <1>2, <1>4 DEF Ledger!Settle, LedgerNow

\* The end of a lease leaves the turns it ran unknown, all at once.
LEMMA LeaseEndInterrupts ==
    ASSUME Inv, NEW s \in Scope, EndLease(s)
    PROVE  \E T \in SUBSET DOMAIN turn : Ledger!Interrupt(T)
<1>1. DOMAIN turn' = DOMAIN turn /\ \A t \in DOMAIN turn : turn'[t] = ReconciledTurns(s)[t]
  BY EndLeaseRows DEF EndLease
<1>2. PICK T \in SUBSET DOMAIN turn :
         T = {t \in DOMAIN turn : turn[t].state = "running" /\ turn[t].claimed_by = s}
  OBVIOUS
<1>3. /\ \A t \in DOMAIN turn : turn'[t].conversation = turn[t].conversation
      /\ \A t \in T : LedgerState(turn'[t].state) = "unknown"
      /\ \A t \in DOMAIN turn \ T : turn'[t].state = turn[t].state
  BY <1>1, <1>2, ReconciledTurn, LedgerStates
<1>4. \A t \in T : LedgerNow[t].state = "running"
  BY <1>2, LedgerRow, LedgerStates
<1>5. LedgerNow' = [t \in DOMAIN LedgerNow |->
         IF t \in T THEN [LedgerNow[t] EXCEPT !.state = "unknown"] ELSE LedgerNow[t]]
  BY ZenonT(40), <1>1, <1>3, LedgerChange
<1>6. Ledger!Interrupt(T)
  BY <1>4, <1>5 DEF Ledger!Interrupt, LedgerNow
<1>7. QED  BY <1>6

LEMMA AppendedSequence ==
    ASSUME NEW S, NEW seq \in Seq(S), NEW x \in S
    PROVE  Append(seq, x) =
              [i \in 1..(Len(seq) + 1) |-> IF i = Len(seq) + 1 THEN x ELSE seq[i]]
<1> DEFINE n == Len(seq) + 1
<1>1. /\ Append(seq, x) \in Seq(S) /\ Len(Append(seq, x)) = n
      /\ Append(seq, x)[n] = x
      /\ \A i \in 1..Len(seq) : Append(seq, x)[i] = seq[i]
  BY AppendProperties
<1>2. Len(seq) \in Nat
  BY LenProperties
<1>3. Append(seq, x) \in [1..n -> S]
  BY <1>1, LenProperties
<1>4. \A i \in 1..n : i # n => i \in 1..Len(seq)
  BY <1>2
<1> HIDE DEF n
<1>5. \A i \in 1..n : Append(seq, x)[i] = IF i = n THEN x ELSE seq[i]
  BY <1>1, <1>4
<1>6. Append(seq, x) = [i \in 1..n |-> IF i = n THEN x ELSE seq[i]]
  BY <1>3, <1>5
<1>7. QED  BY <1>6 DEF n

LEMMA SubmissionSubmits ==
    ASSUME Inv, NEW c \in Conversation, SubmitTurn(c)
    PROVE  Ledger!Submit(c)
<1> DEFINE x == [conversation |-> c, state |-> "queued", claimed_by |-> "none", route |-> 0]
           y == [conversation |-> c, state |-> "queued"]
           n == Len(turn) + 1
<1>1. x \in TurnRow
  BY BoundsAssumption DEF TurnRow, TurnStates
<1>2. /\ turn' = Append(turn, x)
      /\ DOMAIN turn' = DOMAIN turn \union {n} /\ n \notin DOMAIN turn
      /\ turn'[n] = x /\ \A t \in DOMAIN turn : turn'[t] = turn[t]
  BY <1>1, AppendedTurn DEF SubmitTurn, Inv
<1>3. DOMAIN turn = 1..Len(turn) /\ Len(turn) \in Nat
  BY TurnsType DEF Inv
<1>4. DOMAIN turn' = 1..n /\ n \in Nat
  BY <1>2, <1>3
<1>5. LedgerNow \in Seq([conversation : Conversation, state : Ledger!TurnStates])
      /\ Len(LedgerNow) = Len(turn)
  <2>1. ASSUME NEW t \in 1..Len(turn)
        PROVE  LedgerNow[t] \in [conversation : Conversation, state : Ledger!TurnStates]
    <3>1. turn[t].state \in TurnStates /\ turn[t].conversation \in Conversation
      BY <1>3, TurnsType DEF Inv, TurnRow
    <3>2. LedgerState(turn[t].state) \in Ledger!TurnStates
      BY <3>1, LedgerStates DEF TurnStates, Ledger!TurnStates
    <3>3. QED  BY <1>3, <3>1, <3>2 DEF LedgerNow
  <2>2. LedgerNow = [t \in 1..Len(turn) |-> LedgerNow[t]]
    BY <1>3 DEF LedgerNow
  <2> HIDE DEF Ledger!TurnStates
  <2>3. LedgerNow \in [1..Len(turn) ->
              [conversation : Conversation, state : Ledger!TurnStates]]
    BY <2>1, <2>2
  <2>4. LedgerNow \in Seq([conversation : Conversation, state : Ledger!TurnStates])
    BY <1>3, <2>3, FunctionIsSequence
  <2>5. DOMAIN LedgerNow = 1..Len(turn)
    BY <2>3
  <2>6. Len(LedgerNow) \in Nat /\ DOMAIN LedgerNow = 1..Len(LedgerNow)
    BY <2>4, LenProperties
  <2>7. QED  BY <1>3, <2>4, <2>5, <2>6
<1>6. LedgerNow' = Append(LedgerNow, y)
  <2>1. LedgerNow' = [t \in 1..n |->
           [conversation |-> turn'[t].conversation, state |-> LedgerState(turn'[t].state)]]
    BY <1>4 DEF LedgerNow
  <2>2. Append(LedgerNow, y) = [t \in 1..n |-> IF t = n THEN y ELSE LedgerNow[t]]
    <3>1. y \in [conversation : Conversation, state : Ledger!TurnStates]
      BY DEF Ledger!TurnStates
    <3>2. QED  BY <1>5, <3>1, AppendedSequence
  <2>3. LedgerNow'[n] = y
    BY <1>2, <1>4, <2>1, LedgerStates
  <2>4. ASSUME NEW t \in 1..n, t # n  PROVE LedgerNow'[t] = LedgerNow[t]
    <3>1. t \in DOMAIN turn
      BY <1>3, <2>4
    <3>2. QED  BY <1>2, <2>1, <3>1 DEF LedgerNow
  <2>5. QED  BY <2>1, <2>2, <2>3, <2>4
<1>7. QED  BY <1>6 DEF Ledger!Submit, LedgerNow

LEMMA LedgerStep == Inv /\ [Next]_vars => [Ledger!Next]_LedgerNow
<1> SUFFICES ASSUME Inv, [Next]_vars
             PROVE  Ledger!Next \/ UNCHANGED LedgerNow
  OBVIOUS
<1>1. DOMAIN LedgerNow = DOMAIN turn
  BY DEF LedgerNow
<1>2. ASSUME UNCHANGED turn
      PROVE  UNCHANGED LedgerNow
  BY <1>2 DEF LedgerNow
<1>3. ASSUME NEW c \in Conversation, SubmitTurn(c)
      PROVE  Ledger!Next
  BY <1>3, SubmissionSubmits DEF Ledger!Next
<1>4. ASSUME NEW s \in Scope, EndLease(s)
      PROVE  Ledger!Next
  BY <1>1, <1>4, LeaseEndInterrupts DEF Ledger!Next, LedgerNow
<1>5. ASSUME NEW s \in Scope, daemon[s].token = "live", UNCHANGED lease,
             NEW t \in DOMAIN turn, ClaimTurn(s, t)
      PROVE  Ledger!Next
  <2>1. s \in lease
    BY <1>5 DEF Inv, DaemonAgrees
  <2>2. Ledger!Start(t)
    BY <1>5, <2>1, ClaimStarts
  <2>3. QED  BY <1>1, <2>2 DEF Ledger!Next, LedgerNow
<1>6. ASSUME NEW s \in Scope, PostAnswer(s) \/ PostFailure(s)
      PROVE  Ledger!Next \/ UNCHANGED LedgerNow
  <2> DEFINE t == daemon[s].turn
  <2>1. daemon[s].pc # "idle" /\ UNCHANGED lease
    BY <1>6 DEF PostAnswer, PostFailure, At
  <2>2. t \in DOMAIN turn
    BY <2>1, WorkRow
  <2>3. CASE ActiveTurnForLease(s, t)
    <3>1. PICK outcome \in {"completed", "failed"} : CompleteTurn(t, outcome)
      BY <1>6, <2>3 DEF PostAnswer, PostFailure
    <3>2. PICK u \in DOMAIN turn : u = t
      BY <2>2
    <3>3. Ledger!Settle(u)
      BY <2>1, <2>3, <3>1, <3>2, CompletionSettles
    <3>4. QED  BY <1>1, <3>3 DEF Ledger!Next, LedgerNow
  <2>4. CASE ~ActiveTurnForLease(s, t)
    BY <1>2, <1>6, <2>4 DEF PostAnswer, PostFailure
  <2>5. QED  BY <2>3, <2>4
<1>7. ASSUME NEW s \in Scope, StartConversationRun(s)
      PROVE  UNCHANGED LedgerNow
  <2>1. CASE UNCHANGED turn
    BY <1>2, <2>1
  <2>2. CASE turn' = [turn EXCEPT ![daemon[s].turn].route =
                         conversation[turn[daemon[s].turn].conversation].version]
    <3>1. \A t \in DOMAIN turn : turn[t] \in TurnRow
      BY TurnsType DEF Inv
    <3>2. /\ DOMAIN turn' = DOMAIN turn
          /\ \A t \in DOMAIN turn : turn'[t].conversation = turn[t].conversation
                                    /\ turn'[t].state = turn[t].state
      BY <2>2, <3>1 DEF TurnRow
    <3>3. QED  BY <3>2, SameStates
  <2>3. QED  BY <1>7, <2>1, <2>2 DEF StartConversationRun
<1>8. CASE OwnerStep
  BY <1>2, <1>3, <1>8 DEF OwnerStep, CreateTopic, ArchiveTopic, BeginExport,
     BindTopicToProject, SwitchConversationModel
<1>9. ASSUME NEW s \in Scope, DaemonStep(s)
      PROVE  Ledger!Next \/ UNCHANGED LedgerNow
  <2>1. CASE ClaimConversationTurn(s)
    BY <1>2, <1>5, <2>1 DEF ClaimConversationTurn
  <2>2. CASE \/ RegisterLease(s) \/ OpenSession(s) \/ PromptAnswered(s) \/ WaitFails(s)
    BY <1>2, <2>2 DEF RegisterLease, OpenSession, PromptAnswered, WaitFails, rows
  <2>3. QED  BY <1>6, <1>7, <1>9, <2>1, <2>2 DEF DaemonStep
<1>10. ASSUME NEW s \in Scope, Trouble(s)
       PROVE  Ledger!Next \/ UNCHANGED LedgerNow
  <2>1. CASE LeaseExpires(s)
    BY <1>4, <2>1 DEF LeaseExpires
  <2>2. CASE StopDaemon(s)
    BY <1>2, <1>4, <2>2 DEF StopDaemon, rows
  <2>3. CASE ClaimIsLost(s)
    BY <1>5, <2>3 DEF ClaimIsLost
  <2>4. CASE KillDaemon(s) \/ OpenSessionFails(s) \/ CompletionIsLost(s)
    BY <1>2, <2>4 DEF KillDaemon, OpenSessionFails, CompletionIsLost, rows
  <2>5. CASE \E c \in Conversation : PiDies(s, c)
    BY <1>2, <2>5 DEF PiDies, rows
  <2>6. QED  BY <1>10, <2>1, <2>2, <2>3, <2>4, <2>5 DEF Trouble
<1>11. ASSUME NEW s \in Scope, NEW c \in Conversation,
              PiSettles(s, c) \/ PiEventRefused(s, c) \/ PiChangesTask(s, c)
       PROVE  UNCHANGED LedgerNow
  BY <1>2, <1>11 DEF PiSettles, PiEventRefused, PiChangesTask, rows
<1>12. CASE UNCHANGED vars
  BY <1>2, <1>12 DEF vars
<1>13. ASSUME NEW s \in Scope, OrphanedLeaseExpires(s)
       PROVE  Ledger!Next
  BY <1>4, <1>13 DEF OrphanedLeaseExpires
<1>14. QED  BY <1>8, <1>9, <1>10, <1>11, <1>12, <1>13 DEF Next

\* The tables implement the promise made to the owner (TurnLedger): messages of
\* a conversation are taken up in order, one at a time, each at most once, and
\* nothing after one whose fate is unknown.
THEOREM LedgerRefinement == Spec => ImplementsLedger
<1>1. Init => Ledger!Init
  BY DEF Init, Ledger!Init
<1>2. Inv /\ [Next]_vars => [Ledger!Next]_LedgerNow
  BY LedgerStep
<1>3. QED
  BY <1>1, <1>2, Invariance, PTL DEF Spec, ImplementsLedger, Ledger!Spec, LedgerNow
===============================================================================
