----------------------------- MODULE ServicesProofs -----------------------------
(***************************************************************************)
(* What operators and tools decide about recommended actions, for any      *)
(* lists, runs, requests and errors: an action is carried out at most      *)
(* once, never after it was dismissed, and unasked only at level auto.     *)
(*                                                                         *)
(* What holds of an orchestrated analysis, with any costs of calls up to   *)
(* some largest, any budgets and guards, rounds, sub-tasks and plans.  The *)
(* account of the ticket is overdrawn at most by the last call of each     *)
(* sub-task of one batch; and no batch is started that the failures, the   *)
(* plans or the silence of those before it should have prevented.          *)
(*                                                                         *)
(* With the pools and the worktrees of McpProofs, the components of        *)
(* MCServices keep beside one another what each keeps alone.               *)
(***************************************************************************)
EXTENDS MCServices, McpProofs, WellFoundedInduction

-----------------------------------------------------------------------------
(***************************************************************************)
(* Recommended actions                                                     *)
(***************************************************************************)

\* The request has claimed its action: it alone may carry it out.
Claims(q) == requests[q].op = "approve" /\ requests[q].at # "conflict"

\* An action has one claim at most; none as long as it is pending, and none when
\* it was dismissed before anybody approved it.
OneClaim ==
    \A p, q \in DOMAIN requests : Claims(p) /\ Claims(q) /\ requests[p].row = requests[q].row => p = q
PendingUnclaimed ==
    \A i \in DOMAIN pending : pending[i].status = "pending" =>
        i \notin refused /\ \A q \in DOMAIN requests : Claims(q) => requests[q].row # i
RefusedUnclaimed ==
    \A q \in DOMAIN requests : Claims(q) => requests[q].row \notin refused

\* Only claims are about to be, and have been, carried out.
ExecutingClaims ==
    \A q \in DOMAIN requests : requests[q].at \in {"reading", "executing"} => requests[q].op = "approve"
ExecutedClaims ==
    \A d \in executed : Claims(d[2]) /\ requests[d[2]].row = d[1]

\* What a call takes for automatic was so at some time during the call.
AutoAllowed ==
    \A r \in DOMAIN advice, t \in Types : advice[r].config[t] = "auto" => <<r, t>> \in allowed

ClaimsInv == OneClaim /\ PendingUnclaimed /\ RefusedUnclaimed /\ ExecutingClaims /\ ExecutedClaims

PendingInv == PendingTypeOK /\ ClaimsInv /\ AutoAllowed /\ UnaskedOnlyWhenAuto

-----------------------------------------------------------------------------

LEMMA PendingInvInit == PendingInit => PendingInv
PROOF
<1> SUFFICES ASSUME PendingInit PROVE PendingInv
  OBVIOUS
<1> USE PendingAssumption DEF PendingInit
<1>1. PendingTypeOK
  BY DEF PendingTypeOK, ActionBounds
<1>2. ClaimsInv
  BY DEF ClaimsInv, OneClaim, PendingUnclaimed, RefusedUnclaimed, ExecutingClaims, ExecutedClaims
<1>3. AutoAllowed /\ UnaskedOnlyWhenAuto
  BY DEF AutoAllowed, UnaskedOnlyWhenAuto
<1> QED BY <1>1, <1>2, <1>3 DEF PendingInv

\* The levels of a call are those of the settings now.
LEMMA LevelsNow ==
    ASSUME PendingTypeOK
    PROVE  /\ [t \in Types |-> Level(levels, t)] \in [Types -> {"auto", "approval"}]
           /\ \A t \in Types : Level(levels, t) = "auto" <=> t \in AutoNow
PROOF
  BY DEF PendingTypeOK, Level, AutoNow, AutoByDefault

\* Spending keeps the account's type.
LEMMA SpendActionType ==
    ASSUME PendingTypeOK, NEW w \in DOMAIN ActionBounds, SpendAction(w)
    PROVE  actionSpent' \in [DOMAIN ActionBounds -> Nat]
PROOF
<1>1. actionSpent[w] \in Nat /\ actionSpent[w] + 1 \in Nat
  BY DEF PendingTypeOK
<1>2. actionSpent' = [actionSpent EXCEPT ![w] = actionSpent[w] + 1]
  BY DEF SpendAction
<1> QED BY <1>1, <1>2 DEF PendingTypeOK

LEMMA KindsOfSpending ==
    "edits" \in DOMAIN ActionBounds /\ "levels" \in DOMAIN ActionBounds /\ "errors" \in DOMAIN ActionBounds
PROOF
  BY DEF ActionBounds

\* The action at which a call stands.
LEMMA CurrentType ==
    ASSUME PendingTypeOK, NEW r \in DOMAIN advice, Acting(r)
    PROVE  Current(r) \in Action /\ advice[r] \in Advice /\ advice[r].next + 1 \in 1 .. 6
PROOF
<1>1. advice[r] \in Advice
  BY DEF PendingTypeOK
<1>2. advice[r].list \in Seq(Action) /\ Len(advice[r].list) <= 5 /\ advice[r].next \in 1 .. 6
  BY <1>1, PendingAssumption DEF Advice
<1>3. advice[r].next \in 1 .. Len(advice[r].list)
  BY <1>2 DEF Acting
<1> QED BY <1>1, <1>2, <1>3 DEF Current

\* A request that arrives is the last one, and the others are as they were.
LEMMA NewRequestLast ==
    ASSUME PendingTypeOK, NEW i \in DOMAIN pending, NEW kind \in {"approve", "dismiss"},
           NEW where \in {"reading", "dismissing", "done", "conflict"}, NewRequest(kind, i, where)
    PROVE  /\ requests' \in Seq(Request)
           /\ DOMAIN requests' = DOMAIN requests \cup {Len(requests) + 1}
           /\ Len(requests) + 1 \notin DOMAIN requests
           /\ \A q \in DOMAIN requests : requests'[q] = requests[q]
           /\ requests'[Len(requests) + 1].op = kind
           /\ requests'[Len(requests) + 1].row = i
           /\ requests'[Len(requests) + 1].at = where
PROOF
<1> DEFINE new == [at |-> where, op |-> kind, row |-> i, saw |-> ticketFields]
<1>1. new \in Request /\ requests \in Seq(Request)
  BY DEF PendingTypeOK, Request
<1>2. requests' = Append(requests, new)
  BY DEF NewRequest
<1>3. new.op = kind /\ new.row = i /\ new.at = where
  OBVIOUS
<1> HIDE DEF new
<1> QED BY <1>1, <1>2, <1>3

\* A request that goes on keeps its kind and its action.
LEMMA RequestGoesOn ==
    ASSUME PendingTypeOK, NEW q \in DOMAIN requests,
           NEW where \in {"reading", "executing", "dismissing", "done", "conflict", "failed"},
           \/ Goes(q, where)
           \/ requests' = [requests EXCEPT ![q].at = where, ![q].saw = ticketFields]
    PROVE  /\ requests' \in Seq(Request) /\ DOMAIN requests' = DOMAIN requests
           /\ \A p \in DOMAIN requests : requests'[p].op = requests[p].op /\ requests'[p].row = requests[p].row
           /\ \A p \in DOMAIN requests : p # q => requests'[p].at = requests[p].at
           /\ requests'[q].at = where
PROOF
<1>1. requests[q] \in Request /\ requests \in Seq(Request) /\ ticketFields \in [Fields -> FieldValues]
  BY DEF PendingTypeOK
<1>2. PICK new \in Request : requests' = [requests EXCEPT ![q] = new]
                             /\ new.op = requests[q].op /\ new.row = requests[q].row /\ new.at = where
  <2>1. CASE Goes(q, where)
    <3> DEFINE new == [requests[q] EXCEPT !.at = where]
    <3>1. new \in Request /\ new.op = requests[q].op /\ new.row = requests[q].row /\ new.at = where
      BY <1>1 DEF Request
    <3>2. requests' = [requests EXCEPT ![q] = new]
      BY <2>1 DEF Goes
    <3> HIDE DEF new
    <3> QED BY <3>1, <3>2
  <2>2. CASE requests' = [requests EXCEPT ![q].at = where, ![q].saw = ticketFields]
    <3> DEFINE new == [requests[q] EXCEPT !.at = where, !.saw = ticketFields]
    <3>1. new \in Request /\ new.op = requests[q].op /\ new.row = requests[q].row /\ new.at = where
      BY <1>1 DEF Request
    <3>2. requests' = [requests EXCEPT ![q] = new]
      BY <2>2
    <3> HIDE DEF new
    <3> QED BY <3>1, <3>2
  <2> QED BY <2>1, <2>2
<1> QED BY <1>1, <1>2

\* An action that is resolved keeps its place.
LEMMA RowResolved ==
    ASSUME PendingTypeOK, NEW i \in DOMAIN pending, NEW new \in {"approved", "dismissed"},
           pending' = [pending EXCEPT ![i].status = new]
    PROVE  /\ pending' \in Seq(Row) /\ DOMAIN pending' = DOMAIN pending
           /\ pending'[i].status = new
           /\ \A j \in DOMAIN pending : j # i => pending'[j] = pending[j]
PROOF
<1>1. pending[i] \in Row /\ pending \in Seq(Row)
  BY DEF PendingTypeOK
<1> DEFINE row == [pending[i] EXCEPT !.status = new]
<1>2. row \in Row /\ row.status = new
  BY <1>1 DEF Row
<1>3. pending' = [pending EXCEPT ![i] = row]
  OBVIOUS
<1> HIDE DEF row
<1> QED BY <1>1, <1>2, <1>3

\* A write keeps the types of the ticket and of what it notes.
LEMMA WriteType ==
    ASSUME PendingTypeOK, NEW f \in Fields, NEW v \in FieldValues, NEW mine, Write(f, v, mine)
    PROVE  ticketFields' \in [Fields -> FieldValues] /\ upset' \subseteq (DOMAIN advice) \X Fields
PROOF
  BY DEF PendingTypeOK, Write

-----------------------------------------------------------------------------
(* Decisions *)

\* Calls of the AI and edits: requests stay as they are, actions may be added.
LEMMA ClaimsUntouched ==
    ASSUME PendingTypeOK, ClaimsInv, UNCHANGED <<requests, executed, refused>>,
           \/ pending' = pending
           \/ \E row \in Row : pending' = Append(pending, row)
    PROVE  ClaimsInv'
PROOF
<1>1. OneClaim' /\ RefusedUnclaimed' /\ ExecutingClaims' /\ ExecutedClaims'
  BY DEF ClaimsInv, OneClaim, RefusedUnclaimed, ExecutingClaims, ExecutedClaims, Claims
<1>2. PendingUnclaimed'
  <2>1. CASE pending' = pending
    BY <2>1 DEF ClaimsInv, PendingUnclaimed, Claims
  <2>2. ASSUME NEW row \in Row, pending' = Append(pending, row) PROVE PendingUnclaimed'
    <3>1. \A i \in DOMAIN pending' : i \in DOMAIN pending \/ i = Len(pending) + 1
      BY <2>2 DEF PendingTypeOK
    <3>2. \A i \in DOMAIN pending : pending'[i] = pending[i]
      BY <2>2 DEF PendingTypeOK
    <3>3. Len(pending) + 1 \notin DOMAIN pending
      BY DEF PendingTypeOK
    <3>4. Len(pending) + 1 \notin refused /\ \A q \in DOMAIN requests : requests[q].row # Len(pending) + 1
      BY <3>3 DEF PendingTypeOK
    <3> QED BY <3>1, <3>2, <3>4 DEF ClaimsInv, PendingUnclaimed, Claims
  <2> QED BY <2>1, <2>2
<1> QED BY <1>1, <1>2 DEF ClaimsInv

\* A request that claims nothing arrives; its action may be resolved, and is
\* dismissed before an approval only if it has no claim.
LEMMA ClaimsBeside ==
    ASSUME PendingTypeOK, ClaimsInv, NEW i \in DOMAIN pending, NEW kind \in {"approve", "dismiss"},
           NEW where \in {"dismissing", "done", "conflict"}, NewRequest(kind, i, where),
           kind = "approve" => where = "conflict",
           \/ UNCHANGED <<pending, refused>>
           \/ /\ \E new \in {"approved", "dismissed"} : pending' = [pending EXCEPT ![i].status = new]
              /\ \/ refused' = refused
                 \/ refused' = refused \cup {i} /\ ~ApprovedBySomebody(i),
           executed' = executed
    PROVE  ClaimsInv'
PROOF
<1> USE DEF ClaimsInv
<1>1. PICK new :
      /\ DOMAIN requests' = DOMAIN requests \cup {new} /\ new \notin DOMAIN requests
      /\ \A q \in DOMAIN requests : requests'[q] = requests[q]
      /\ requests'[new].op = kind /\ requests'[new].row = i /\ requests'[new].at = where
  BY NewRequestLast
<1>2. ~Claims(new)'
  BY <1>1 DEF Claims
<1>3. \A q \in DOMAIN requests : Claims(q)' <=> Claims(q)
  BY <1>1 DEF Claims
<1>4. /\ DOMAIN pending' = DOMAIN pending
      /\ \A j \in DOMAIN pending : pending'[j].status = "pending" =>
             pending[j].status = "pending" /\ (j \in refused' => j \in refused)
  BY RowResolved
<1>5. \A q \in DOMAIN requests : Claims(q) => requests[q].row \notin refused'
  BY DEF RefusedUnclaimed, ApprovedBySomebody, Claims
<1>6. OneClaim'
  BY <1>1, <1>2, <1>3 DEF OneClaim
<1>7. PendingUnclaimed'
  BY <1>1, <1>2, <1>3, <1>4 DEF PendingUnclaimed
<1>8. RefusedUnclaimed'
  BY <1>1, <1>2, <1>3, <1>5 DEF RefusedUnclaimed
<1>9. ExecutingClaims'
  BY <1>1 DEF ExecutingClaims
<1>10. ExecutedClaims'
  BY <1>1, <1>3 DEF ExecutedClaims, PendingTypeOK
<1> QED BY <1>6, <1>7, <1>8, <1>9, <1>10

\* A pending action is claimed.
LEMMA ClaimsNew ==
    ASSUME PendingTypeOK, ClaimsInv, NEW i \in DOMAIN pending, Claimable(i),
           NewRequest("approve", i, "reading"), pending' = [pending EXCEPT ![i].status = "approved"],
           UNCHANGED <<executed, refused>>
    PROVE  ClaimsInv'
PROOF
<1> USE DEF ClaimsInv
<1>1. PICK new :
      /\ DOMAIN requests' = DOMAIN requests \cup {new} /\ new \notin DOMAIN requests
      /\ \A q \in DOMAIN requests : requests'[q] = requests[q]
      /\ requests'[new].op = "approve" /\ requests'[new].row = i
  BY NewRequestLast
<1>2. i \notin refused /\ \A q \in DOMAIN requests : Claims(q) => requests[q].row # i
  BY DEF Claimable, PendingUnclaimed
<1>3. \A q \in DOMAIN requests : Claims(q)' <=> Claims(q)
  BY <1>1 DEF Claims
<1>4. /\ DOMAIN pending' = DOMAIN pending /\ pending'[i].status = "approved"
      /\ \A j \in DOMAIN pending : j # i => pending'[j] = pending[j]
  BY RowResolved
<1>5. OneClaim'
  BY <1>1, <1>2, <1>3 DEF OneClaim
<1>6. PendingUnclaimed'
  BY <1>1, <1>3, <1>4 DEF PendingUnclaimed
<1>7. RefusedUnclaimed'
  BY <1>1, <1>2, <1>3 DEF RefusedUnclaimed
<1>8. ExecutingClaims'
  BY <1>1 DEF ExecutingClaims
<1>9. ExecutedClaims'
  BY <1>1, <1>3 DEF ExecutedClaims, PendingTypeOK
<1> QED BY <1>5, <1>6, <1>7, <1>8, <1>9

\* A request goes on: what it claims, it goes on claiming.  Its action may be
\* carried out, or dismissed.
LEMMA ClaimsGoOn ==
    ASSUME PendingTypeOK, ClaimsInv, NEW q \in DOMAIN requests,
           requests[q].at \in {"reading", "executing", "dismissing"},
           NEW where \in {"executing", "done", "failed"},
           where = "executing" => requests[q].at = "reading",
           \/ Goes(q, where)
           \/ requests' = [requests EXCEPT ![q].at = where, ![q].saw = ticketFields],
           \/ executed' = executed
           \/ executed' = executed \cup {<<requests[q].row, q>>} /\ requests[q].at = "executing",
           \/ UNCHANGED <<pending, refused>>
           \/ MarkDismissed(requests[q].row)
    PROVE  ClaimsInv'
PROOF
<1> USE DEF ClaimsInv
<1>1. /\ DOMAIN requests' = DOMAIN requests
      /\ \A p \in DOMAIN requests : requests'[p].op = requests[p].op /\ requests'[p].row = requests[p].row
      /\ \A p \in DOMAIN requests : p # q => requests'[p].at = requests[p].at
      /\ requests'[q].at = where
  BY RequestGoesOn
<1>2. \A p \in DOMAIN requests : Claims(p)' <=> Claims(p)
  BY <1>1 DEF Claims
<1>3. requests[q].row \in DOMAIN pending
  BY DEF PendingTypeOK
<1>4. /\ DOMAIN pending' = DOMAIN pending
      /\ \A j \in DOMAIN pending : pending'[j].status = "pending" =>
             pending[j].status = "pending" /\ (j \in refused' => j \in refused)
  BY <1>3, RowResolved DEF MarkDismissed
<1>5. \A p \in DOMAIN requests : Claims(p) => requests[p].row \notin refused'
  BY DEF RefusedUnclaimed, MarkDismissed, ApprovedBySomebody, Claims
<1>6. OneClaim'
  BY <1>1, <1>2 DEF OneClaim
<1>7. PendingUnclaimed'
  BY <1>1, <1>2, <1>4 DEF PendingUnclaimed
<1>8. RefusedUnclaimed'
  BY <1>1, <1>2, <1>5 DEF RefusedUnclaimed
<1>9. ExecutingClaims'
  BY <1>1 DEF ExecutingClaims
<1>10. ExecutedClaims'
  <2>1. \A d \in executed : d[2] \in DOMAIN requests
    BY DEF PendingTypeOK
  <2>2. requests[q].at = "executing" => Claims(q)
    BY DEF ExecutingClaims, Claims
  <2>3. \A d \in executed' : d \in executed \/ (d[1] = requests[q].row /\ d[2] = q /\ Claims(q))
    BY <2>2
  <2> QED BY <1>1, <1>2, <2>1, <2>3 DEF ExecutedClaims
<1> QED BY <1>6, <1>7, <1>8, <1>9, <1>10

-----------------------------------------------------------------------------
(* Levels, and types *)

\* What the calls of the AI, and nobody else, change.
CallsOK ==
    /\ advice \in Seq(Advice)
    /\ tacit \subseteq (DOMAIN advice) \X Types /\ allowed \subseteq (DOMAIN advice) \X Types
    /\ AutoAllowed /\ UnaskedOnlyWhenAuto

\* A call begins with the levels of now.
LEMMA CallBegins ==
    ASSUME PendingInv, NEW list \in Recommendations, Recommend(list)
    PROVE  CallsOK' /\ DOMAIN advice \subseteq DOMAIN advice'
PROOF
<1> DEFINE level == [t \in Types |-> Level(levels, t)]
           call == [at |-> "loading", list |-> list, next |-> 1, config |-> level, local |-> ticketFields]
<1>1. level \in [Types -> {"auto", "approval"}] /\ \A t \in Types : level[t] = "auto" <=> t \in AutoNow
  BY LevelsNow DEF PendingInv
<1>2. call \in Advice /\ call.config = level
  BY <1>1 DEF PendingInv, PendingTypeOK, Advice
<1>3. PICK new :
      /\ advice' = Append(advice, call) /\ allowed' = allowed \cup ({new} \X AutoNow) /\ tacit' = tacit
      /\ new = Len(advice) + 1 /\ advice \in Seq(Advice)
  BY DEF Recommend, PendingInv, PendingTypeOK
<1> HIDE DEF call, level
<1>4. /\ advice' \in Seq(Advice) /\ DOMAIN advice' = DOMAIN advice \cup {new}
      /\ \A r \in DOMAIN advice : advice'[r] = advice[r]
      /\ advice'[new] = call
  BY <1>2, <1>3
<1>5. AutoNow \subseteq Types
  BY DEF AutoNow
<1>6. AutoAllowed'
  BY <1>1, <1>2, <1>3, <1>4 DEF PendingInv, AutoAllowed
<1>7. UnaskedOnlyWhenAuto'
  BY <1>3 DEF PendingInv, UnaskedOnlyWhenAuto
<1>8. /\ tacit' \subseteq (DOMAIN advice') \X Types
      /\ allowed' \subseteq (DOMAIN advice') \X Types
  BY <1>3, <1>4, <1>5 DEF PendingInv, PendingTypeOK
<1> QED BY <1>4, <1>6, <1>7, <1>8 DEF CallsOK

\* A call goes on with the levels it has, and deals unasked with what is automatic.
LEMMA CallGoesOn ==
    ASSUME PendingInv, NEW r \in DOMAIN advice, NEW call \in Advice,
           advice' = [advice EXCEPT ![r] = call], call.config = advice[r].config,
           \/ tacit' = tacit
           \/ Automatic(r) /\ tacit' = tacit \cup {<<r, Current(r).type>>},
           allowed' = allowed
    PROVE  CallsOK' /\ DOMAIN advice' = DOMAIN advice
PROOF
<1>1. advice' \in Seq(Advice) /\ DOMAIN advice' = DOMAIN advice
  BY DEF PendingInv, PendingTypeOK
<1>2. \A c \in DOMAIN advice : advice'[c].config = advice[c].config
  BY DEF PendingInv, PendingTypeOK
<1>3. AutoAllowed'
  BY <1>1, <1>2 DEF PendingInv, AutoAllowed
<1>4. Automatic(r) => Current(r).type \in Types /\ <<r, Current(r).type>> \in allowed
  BY CurrentType DEF PendingInv, Automatic, AutoAllowed, Action
<1>5. UnaskedOnlyWhenAuto' /\ tacit' \subseteq (DOMAIN advice') \X Types
  BY <1>1, <1>4 DEF PendingInv, PendingTypeOK, UnaskedOnlyWhenAuto
<1> QED BY <1>1, <1>3, <1>5 DEF CallsOK, PendingInv, PendingTypeOK

\* Nothing about calls changes, but more may be allowed.
LEMMA CallsUntouched ==
    ASSUME PendingInv, UNCHANGED <<advice, tacit>>, allowed \subseteq allowed',
           allowed' \subseteq (DOMAIN advice) \X Types
    PROVE  CallsOK'
PROOF
  BY DEF CallsOK, PendingInv, PendingTypeOK, AutoAllowed, UnaskedOnlyWhenAuto

\* What is queued or decided of actions, with the rest of the types.
RestOK ==
    /\ ticketFields \in [Fields -> FieldValues]
    /\ levels \in [Types -> {"auto", "approval", "unset"}]
    /\ pending \in Seq(Row) /\ requests \in Seq(Request)
    /\ \A q \in DOMAIN requests : requests[q].row \in DOMAIN pending
    /\ actionSpent \in [DOMAIN ActionBounds -> Nat]
    /\ upset \subseteq (DOMAIN advice) \X Fields
    /\ executed \subseteq (DOMAIN pending) \X (DOMAIN requests) /\ refused \subseteq DOMAIN pending

LEMMA PartsOfType == RestOK' /\ CallsOK' /\ ClaimsInv' => PendingInv'
PROOF
  BY DEF PendingInv, PendingTypeOK, RestOK, CallsOK

-----------------------------------------------------------------------------
(* The steps *)

LEMMA RecommendStep ==
    ASSUME PendingInv, NEW list \in Recommendations, Recommend(list)
    PROVE  PendingInv'
PROOF
<1>1. CallsOK' /\ DOMAIN advice \subseteq DOMAIN advice'
  BY CallBegins
<1>2. RestOK'
  BY <1>1 DEF Recommend, PendingInv, PendingTypeOK, RestOK
<1>3. ClaimsInv'
  BY ClaimsUntouched DEF Recommend, PendingInv
<1> QED BY <1>1, <1>2, <1>3, PartsOfType

LEMMA LoadTicketStep ==
    ASSUME PendingInv, NEW r \in DOMAIN advice, LoadTicket(r)
    PROVE  PendingInv'
PROOF
<1> DEFINE call == [advice[r] EXCEPT !.at = "acting", !.local = ticketFields]
<1>1. call \in Advice /\ call.config = advice[r].config
  <2>1. advice[r] \in Advice /\ ticketFields \in [Fields -> FieldValues]
    BY DEF PendingInv, PendingTypeOK
  <2> QED BY <2>1 DEF Advice
<1>2. advice' = [advice EXCEPT ![r] = call]
  BY DEF LoadTicket
<1> HIDE DEF call
<1>3. CallsOK' /\ DOMAIN advice' = DOMAIN advice
  BY <1>1, <1>2, CallGoesOn DEF LoadTicket
<1>4. RestOK'
  BY <1>3 DEF LoadTicket, PendingInv, PendingTypeOK, RestOK
<1>5. ClaimsInv'
  BY ClaimsUntouched DEF LoadTicket, PendingInv
<1> QED BY <1>3, <1>4, <1>5, PartsOfType

\* A call that has dealt with an action.
LEMMA NextOfCall ==
    ASSUME PendingInv, NEW r \in DOMAIN advice, Acting(r), NEW local \in [Fields -> FieldValues]
    PROVE  /\ [advice[r] EXCEPT !.next = @ + 1] \in Advice
           /\ [advice[r] EXCEPT !.next = @ + 1].config = advice[r].config
           /\ [advice[r] EXCEPT !.next = @ + 1, !.local = local] \in Advice
           /\ [advice[r] EXCEPT !.next = @ + 1, !.local = local].config = advice[r].config
PROOF
<1>1. advice[r] \in Advice /\ advice[r].next + 1 \in 1 .. 6
  BY CurrentType DEF PendingInv
<1>2. \A n \in 1 .. 6 : /\ [advice[r] EXCEPT !.next = n] \in Advice
                        /\ [advice[r] EXCEPT !.next = n].config = advice[r].config
                        /\ [advice[r] EXCEPT !.next = n, !.local = local] \in Advice
                        /\ [advice[r] EXCEPT !.next = n, !.local = local].config = advice[r].config
  BY <1>1 DEF Advice
<1> QED BY <1>1, <1>2

LEMMA AutoExecuteStep ==
    ASSUME PendingInv, NEW r \in DOMAIN advice, AutoExecute(r)
    PROVE  PendingInv'
PROOF
<1>1. Acting(r) /\ Automatic(r) /\ Current(r) \in Action /\ advice[r] \in Advice
  BY CurrentType DEF AutoExecute, Automatic, PendingInv
<1>2. tacit' = tacit \cup {<<r, Current(r).type>>}
      /\ UNCHANGED <<levels, pending, requests, actionSpent, allowed, executed, refused>>
  BY DEF AutoExecute
<1>3. PICK call \in Advice : call.config = advice[r].config /\ advice' = [advice EXCEPT ![r] = call]
  <2>1. CASE Effective(Current(r), advice[r].local)
    <3> DEFINE local == Tracked(advice[r].local, Current(r))
    <3>1. local \in [Fields -> FieldValues]
      BY <1>1, <2>1, PendingAssumption DEF Tracked, Advice, Effective
    <3>2. advice' = [advice EXCEPT ![r] = [advice[r] EXCEPT !.next = @ + 1, !.local = local]]
      BY <2>1 DEF AutoExecute
    <3> HIDE DEF local
    <3> QED BY <1>1, <3>1, <3>2, NextOfCall
  <2>2. CASE ~Effective(Current(r), advice[r].local)
    <3>1. advice' = [advice EXCEPT ![r] = [advice[r] EXCEPT !.next = @ + 1]]
      BY <2>2 DEF AutoExecute
    <3>2. advice[r].local \in [Fields -> FieldValues]
      BY <1>1 DEF Advice
    <3> QED BY <1>1, <3>1, <3>2, NextOfCall
  <2> QED BY <2>1, <2>2
<1>4. CallsOK' /\ DOMAIN advice' = DOMAIN advice
  BY <1>1, <1>2, <1>3, CallGoesOn
<1>5. ticketFields' \in [Fields -> FieldValues] /\ upset' \subseteq (DOMAIN advice) \X Fields
  <2>1. CASE Effective(Current(r), advice[r].local) /\ Current(r).type \in Fields
    <3>1. Current(r).value \in FieldValues
      BY <2>1, PendingAssumption DEF Effective
    <3>2. Write(Current(r).type, Current(r).value, {r})
      BY <2>1 DEF AutoExecute
    <3> QED BY <2>1, <3>1, <3>2, WriteType DEF PendingInv
  <2>2. CASE ~(Effective(Current(r), advice[r].local) /\ Current(r).type \in Fields)
    BY <2>2 DEF AutoExecute, PendingInv, PendingTypeOK
  <2> QED BY <2>1, <2>2
<1>6. RestOK'
  BY <1>2, <1>4, <1>5 DEF PendingInv, PendingTypeOK, RestOK
<1>7. ClaimsInv'
  BY <1>2, ClaimsUntouched DEF PendingInv
<1> QED BY <1>4, <1>6, <1>7, PartsOfType

LEMMA AutoExecuteFailsStep ==
    ASSUME PendingInv, NEW r \in DOMAIN advice, AutoExecuteFails(r)
    PROVE  PendingInv'
PROOF
<1>1. /\ Acting(r) /\ Automatic(r) /\ advice[r] \in Advice
      /\ Current(r).type \in Fields /\ Current(r).value \in FieldValues
  BY CurrentType, PendingAssumption DEF AutoExecuteFails, Automatic, PendingInv, Effective
<1>2. tacit' = tacit \cup {<<r, Current(r).type>>} /\ SpendAction("errors")
      /\ UNCHANGED <<levels, pending, requests, allowed, executed, refused>>
  BY DEF AutoExecuteFails
<1>3. advice[r].local \in [Fields -> FieldValues]
  BY <1>1 DEF Advice
<1>4. advice' = [advice EXCEPT ![r] = [advice[r] EXCEPT !.next = @ + 1]]
  BY DEF AutoExecuteFails
<1>5. CallsOK' /\ DOMAIN advice' = DOMAIN advice
  BY <1>1, <1>2, <1>3, <1>4, NextOfCall, CallGoesOn
<1>6. ticketFields' \in [Fields -> FieldValues] /\ upset' \subseteq (DOMAIN advice) \X Fields
  BY <1>1, WriteType DEF AutoExecuteFails, PendingInv, PendingTypeOK
<1>7. RestOK'
  BY <1>2, <1>5, <1>6, SpendActionType, KindsOfSpending DEF PendingInv, PendingTypeOK, RestOK
<1>8. ClaimsInv'
  BY <1>2, ClaimsUntouched DEF PendingInv
<1> QED BY <1>5, <1>7, <1>8, PartsOfType

LEMMA QueueStep ==
    ASSUME PendingInv, NEW r \in DOMAIN advice, Queue(r)
    PROVE  PendingInv'
PROOF
<1>1. Acting(r) /\ Current(r) \in Action /\ advice[r] \in Advice
  BY CurrentType DEF Queue, PendingInv
<1>2. UNCHANGED <<ticketFields, levels, requests, actionHistory>>
  BY DEF Queue
<1>3. CASE /\ pending' = Append(pending, [action |-> Current(r), status |-> "pending"])
           /\ advice' = [advice EXCEPT ![r].next = @ + 1] /\ UNCHANGED actionSpent
  <2>1. [action |-> Current(r), status |-> "pending"] \in Row
    BY <1>1 DEF Row
  <2>2. PICK row \in Row : pending' = Append(pending, row)
    BY <1>3, <2>1
  <2>3. pending' \in Seq(Row) /\ DOMAIN pending \subseteq DOMAIN pending'
    BY <2>2 DEF PendingInv, PendingTypeOK
  <2>4. advice[r].local \in [Fields -> FieldValues]
    BY <1>1 DEF Advice
  <2>5. advice' = [advice EXCEPT ![r] = [advice[r] EXCEPT !.next = @ + 1]]
    BY <1>3
  <2>6. CallsOK' /\ DOMAIN advice' = DOMAIN advice
    BY <1>1, <1>2, <2>4, <2>5, NextOfCall, CallGoesOn DEF actionHistory
  <2>7. RestOK'
    BY <1>2, <1>3, <2>3, <2>6 DEF PendingInv, PendingTypeOK, RestOK, actionHistory
  <2>8. ClaimsInv'
    BY <1>2, <2>2, ClaimsUntouched DEF PendingInv, actionHistory
  <2> QED BY <2>6, <2>7, <2>8, PartsOfType
<1>4. CASE SpendAction("errors") /\ advice' = [advice EXCEPT ![r].at = "failed"] /\ UNCHANGED pending
  <2> DEFINE call == [advice[r] EXCEPT !.at = "failed"]
  <2>1. call \in Advice /\ call.config = advice[r].config
    BY <1>1 DEF Advice
  <2>2. advice' = [advice EXCEPT ![r] = call]
    BY <1>4
  <2> HIDE DEF call
  <2>3. CallsOK' /\ DOMAIN advice' = DOMAIN advice
    BY <1>2, <2>1, <2>2, CallGoesOn DEF actionHistory
  <2>4. RestOK'
    BY <1>2, <1>4, <2>3, SpendActionType, KindsOfSpending DEF PendingInv, PendingTypeOK, RestOK, actionHistory
  <2>5. ClaimsInv'
    BY <1>2, <1>4, ClaimsUntouched DEF PendingInv, actionHistory
  <2> QED BY <2>3, <2>4, <2>5, PartsOfType
<1> QED BY <1>3, <1>4 DEF Queue

\* Requests leave calls alone.
LEMMA OthersStep ==
    ASSUME PendingInv, UNCHANGED <<advice, tacit, allowed>>, RestOK', ClaimsInv'
    PROVE  PendingInv'
PROOF
<1>1. CallsOK'
  BY CallsUntouched DEF PendingInv, PendingTypeOK
<1> QED BY <1>1, PartsOfType

\* Requests that arrive, of routes and of tools.
LEMMA ArrivalType ==
    ASSUME PendingInv, NEW i \in DOMAIN pending, NEW kind \in {"approve", "dismiss"},
           NEW where \in {"reading", "dismissing", "done", "conflict"}, NewRequest(kind, i, where),
           \/ pending' = pending
           \/ \E new \in {"approved", "dismissed"} : pending' = [pending EXCEPT ![i].status = new],
           refused' = refused \/ refused' = refused \cup {i},
           UNCHANGED <<ticketFields, levels, advice, actionSpent, tacit, allowed, upset, executed>>
    PROVE  RestOK'
PROOF
<1> USE DEF PendingInv, PendingTypeOK
<1>1. pending' \in Seq(Row) /\ DOMAIN pending' = DOMAIN pending
  BY RowResolved
<1>2. PICK new :
      /\ requests' \in Seq(Request) /\ DOMAIN requests' = DOMAIN requests \cup {new}
      /\ \A q \in DOMAIN requests : requests'[q] = requests[q]
      /\ requests'[new].row = i
  BY NewRequestLast
<1>3. \A q \in DOMAIN requests' : requests'[q].row \in DOMAIN pending'
  BY <1>1, <1>2
<1>4. executed' \subseteq (DOMAIN pending') \X (DOMAIN requests')
  BY <1>1, <1>2
<1>5. refused' \subseteq DOMAIN pending'
  BY <1>1
<1> QED BY <1>1, <1>2, <1>3, <1>4, <1>5 DEF RestOK

LEMMA ApproveStep ==
    ASSUME PendingInv, NEW i \in DOMAIN pending, Approve(i)
    PROVE  PendingInv'
PROOF
<1>1. UNCHANGED <<ticketFields, levels, advice, actionSpent, tacit, allowed, upset, executed, refused>>
  BY DEF Approve, actionHistory
<1>2. CASE Claimable(i) /\ pending' = [pending EXCEPT ![i].status = "approved"] /\ NewRequest("approve", i, "reading")
  <2>1. RestOK'
    BY <1>1, <1>2, ArrivalType
  <2>2. ClaimsInv'
    BY <1>1, <1>2, ClaimsNew DEF PendingInv
  <2> QED BY <1>1, <2>1, <2>2, OthersStep
<1>3. CASE NewRequest("approve", i, "conflict") /\ UNCHANGED pending
  <2>1. RestOK'
    BY <1>1, <1>3, ArrivalType
  <2>2. ClaimsInv'
    BY <1>1, <1>3, ClaimsBeside DEF PendingInv
  <2> QED BY <1>1, <2>1, <2>2, OthersStep
<1> QED BY <1>2, <1>3 DEF Approve

LEMMA LookStep ==
    ASSUME PendingInv, NEW i \in DOMAIN pending, LookForDismissal(i)
    PROVE  PendingInv'
PROOF
<1>1. PICK where \in {"dismissing", "conflict"} : NewRequest("dismiss", i, where)
  BY DEF LookForDismissal
<1>2. UNCHANGED <<ticketFields, levels, advice, pending, actionSpent, tacit, allowed, upset, executed, refused>>
  BY DEF LookForDismissal, actionHistory
<1>3. RestOK'
  BY <1>1, <1>2, ArrivalType
<1>4. ClaimsInv'
  BY <1>1, <1>2, ClaimsBeside DEF PendingInv
<1> QED BY <1>2, <1>3, <1>4, OthersStep

LEMMA ToolsStep ==
    ASSUME PendingInv, NEW i \in DOMAIN pending, ToolApproves(i) \/ ToolDismisses(i)
    PROVE  PendingInv'
PROOF
<1>1. UNCHANGED <<ticketFields, levels, advice, actionSpent, tacit, allowed, upset, executed>>
  BY DEF ToolApproves, ToolDismisses, actionHistory
<1>2. CASE ToolApproves(i)
  <2>1. /\ NewRequest("approve", i, "conflict") /\ refused' = refused
        /\ pending' = [pending EXCEPT ![i].status = "approved"]
    BY <1>2 DEF ToolApproves, actionHistory
  <2>2. RestOK'
    BY <1>1, <2>1, ArrivalType
  <2>3. ClaimsInv'
    BY <1>1, <2>1, ClaimsBeside DEF PendingInv
  <2> QED BY <1>1, <2>2, <2>3, OthersStep
<1>3. CASE ToolDismisses(i)
  <2>1. /\ NewRequest("dismiss", i, "done")
        /\ pending' = [pending EXCEPT ![i].status = "dismissed"]
        /\ refused' = refused \/ (refused' = refused \cup {i} /\ ~ApprovedBySomebody(i))
    BY <1>3 DEF ToolDismisses, MarkDismissed
  <2>2. RestOK'
    BY <1>1, <2>1, ArrivalType
  <2>3. ClaimsInv'
    BY <1>1, <2>1, ClaimsBeside DEF PendingInv
  <2> QED BY <1>1, <2>2, <2>3, OthersStep
<1> QED BY <1>2, <1>3

\* Requests that go on.
LEMMA GoingOnType ==
    ASSUME PendingInv, NEW q \in DOMAIN requests,
           NEW where \in {"reading", "executing", "dismissing", "done", "conflict", "failed"},
           \/ Goes(q, where)
           \/ requests' = [requests EXCEPT ![q].at = where, ![q].saw = ticketFields],
           \/ executed' = executed
           \/ executed' = executed \cup {<<requests[q].row, q>>},
           \/ UNCHANGED <<pending, refused>>
           \/ MarkDismissed(requests[q].row),
           ticketFields' \in [Fields -> FieldValues], upset' \subseteq (DOMAIN advice) \X Fields,
           actionSpent' \in [DOMAIN ActionBounds -> Nat], UNCHANGED <<levels, advice>>
    PROVE  RestOK'
PROOF
<1> USE DEF PendingInv, PendingTypeOK
<1>1. requests[q].row \in DOMAIN pending
  OBVIOUS
<1>2. pending' \in Seq(Row) /\ DOMAIN pending' = DOMAIN pending
  BY <1>1, RowResolved DEF MarkDismissed
<1>3. /\ requests' \in Seq(Request) /\ DOMAIN requests' = DOMAIN requests
      /\ \A p \in DOMAIN requests : requests'[p].row = requests[p].row
  BY RequestGoesOn
<1>4. refused' \subseteq DOMAIN pending'
  BY <1>1, <1>2 DEF MarkDismissed
<1>5. executed' \subseteq (DOMAIN pending') \X (DOMAIN requests')
  BY <1>1, <1>2, <1>3
<1> QED BY <1>2, <1>3, <1>4, <1>5 DEF RestOK

LEMMA ReadForExecutionStep ==
    ASSUME PendingInv, NEW q \in DOMAIN requests, ReadForExecution(q)
    PROVE  PendingInv'
PROOF
<1>1. /\ requests[q].at = "reading"
      /\ requests' = [requests EXCEPT ![q].at = "executing", ![q].saw = ticketFields]
      /\ UNCHANGED <<ticketFields, levels, advice, pending, actionSpent, tacit, allowed, upset, executed, refused>>
  BY DEF ReadForExecution, actionHistory
<1>2. RestOK'
  BY <1>1, GoingOnType DEF PendingInv, PendingTypeOK
<1>3. ClaimsInv'
  BY <1>1, ClaimsGoOn DEF PendingInv
<1> QED BY <1>1, <1>2, <1>3, OthersStep

LEMMA ExecuteStep ==
    ASSUME PendingInv, NEW q \in DOMAIN requests, Execute(q)
    PROVE  PendingInv'
PROOF
<1> DEFINE a == pending[requests[q].row].action
<1>1. /\ requests[q].at = "executing" /\ Goes(q, "done")
      /\ executed' = executed \/ executed' = executed \cup {<<requests[q].row, q>>}
      /\ UNCHANGED <<levels, advice, pending, actionSpent, tacit, allowed, refused>>
  BY DEF Execute
<1>2. ticketFields' \in [Fields -> FieldValues] /\ upset' \subseteq (DOMAIN advice) \X Fields
  <2>1. CASE Effective(a, requests[q].saw) /\ a.type \in Fields
    <3>1. a.value \in FieldValues
      BY <2>1, PendingAssumption DEF Effective
    <3>2. Write(a.type, a.value, {})
      BY <2>1 DEF Execute
    <3> QED BY <2>1, <3>1, <3>2, WriteType DEF PendingInv
  <2>2. CASE ~(Effective(a, requests[q].saw) /\ a.type \in Fields)
    BY <2>2 DEF Execute, PendingInv, PendingTypeOK
  <2> QED BY <2>1, <2>2
<1>3. RestOK'
  BY <1>1, <1>2, GoingOnType DEF PendingInv, PendingTypeOK
<1>4. ClaimsInv'
  BY <1>1, ClaimsGoOn DEF PendingInv
<1> QED BY <1>1, <1>3, <1>4, OthersStep

LEMMA RequestFailsStep ==
    ASSUME PendingInv, NEW q \in DOMAIN requests, RequestFails(q)
    PROVE  PendingInv'
PROOF
<1>1. /\ requests[q].at \in {"reading", "executing", "dismissing"}
      /\ SpendAction("errors") /\ Goes(q, "failed")
      /\ UNCHANGED <<ticketFields, levels, advice, pending, tacit, allowed, upset, executed, refused>>
  BY DEF RequestFails, actionHistory
<1>2. actionSpent' \in [DOMAIN ActionBounds -> Nat]
  BY <1>1, SpendActionType, KindsOfSpending DEF PendingInv
<1>3. RestOK'
  BY <1>1, <1>2, GoingOnType DEF PendingInv, PendingTypeOK
<1>4. ClaimsInv'
  BY <1>1, ClaimsGoOn DEF PendingInv
<1> QED BY <1>1, <1>3, <1>4, OthersStep

LEMMA DismissStep ==
    ASSUME PendingInv, NEW q \in DOMAIN requests, Dismiss(q)
    PROVE  PendingInv'
PROOF
<1>1. /\ requests[q].at = "dismissing" /\ Goes(q, "done") /\ MarkDismissed(requests[q].row)
      /\ UNCHANGED <<ticketFields, levels, advice, actionSpent, tacit, allowed, upset, executed>>
  BY DEF Dismiss
<1>2. RestOK'
  BY <1>1, GoingOnType DEF PendingInv, PendingTypeOK
<1>3. ClaimsInv'
  BY <1>1, ClaimsGoOn DEF PendingInv
<1> QED BY <1>1, <1>2, <1>3, OthersStep

\* Edits of the ticket and of the settings.
LEMMA EditsStep ==
    ASSUME PendingInv, (\E f \in Fields : OperatorEdits(f)) \/ (\E t \in Types : SetLevel(t))
    PROVE  PendingInv'
PROOF
<1>1. ClaimsInv'
  BY ClaimsUntouched DEF OperatorEdits, SetLevel, PendingInv
<1>2. ASSUME NEW f \in Fields, OperatorEdits(f) PROVE PendingInv'
  <2>1. ticketFields' \in [Fields -> FieldValues] /\ upset' \subseteq (DOMAIN advice) \X Fields
    BY <1>2, WriteType DEF OperatorEdits, PendingInv
  <2>2. actionSpent' \in [DOMAIN ActionBounds -> Nat]
    BY <1>2, SpendActionType, KindsOfSpending DEF OperatorEdits, PendingInv
  <2>3. RestOK'
    BY <1>2, <2>1, <2>2 DEF OperatorEdits, PendingInv, PendingTypeOK, RestOK
  <2> QED BY <1>1, <1>2, <2>3, OthersStep DEF OperatorEdits
<1>3. ASSUME NEW t \in Types, SetLevel(t) PROVE PendingInv'
  <2>1. actionSpent' \in [DOMAIN ActionBounds -> Nat]
    BY <1>3, SpendActionType, KindsOfSpending DEF SetLevel, PendingInv
  <2>2. PICK l \in {"auto", "approval"} : levels' = [levels EXCEPT ![t] = l]
    BY <1>3 DEF SetLevel
  <2>3. RestOK'
    BY <1>3, <2>1, <2>2 DEF SetLevel, PendingInv, PendingTypeOK, RestOK
  <2>4. allowed \subseteq allowed' /\ allowed' \subseteq (DOMAIN advice) \X Types
    BY <1>3 DEF SetLevel, PendingInv, PendingTypeOK
  <2>5. CallsOK'
    BY <1>3, <2>4, CallsUntouched DEF SetLevel
  <2> QED BY <1>1, <2>3, <2>5, PartsOfType
<1> QED BY <1>2, <1>3

LEMMA PendingInvStep == PendingInv /\ [PendingNext]_pendingVars => PendingInv'
PROOF
<1> SUFFICES ASSUME PendingInv, [PendingNext]_pendingVars PROVE PendingInv'
  OBVIOUS
<1>1. ASSUME NEW list \in Recommendations, Recommend(list) PROVE PendingInv'
  BY <1>1, RecommendStep
<1>2. ASSUME NEW r \in DOMAIN advice, LoadTicket(r) \/ AutoExecute(r) \/ AutoExecuteFails(r) \/ Queue(r)
      PROVE  PendingInv'
  BY <1>2, LoadTicketStep, AutoExecuteStep, AutoExecuteFailsStep, QueueStep
<1>3. ASSUME NEW i \in DOMAIN pending, Approve(i) \/ LookForDismissal(i) \/ ToolApproves(i) \/ ToolDismisses(i)
      PROVE  PendingInv'
  BY <1>3, ApproveStep, LookStep, ToolsStep
<1>4. ASSUME NEW q \in DOMAIN requests, ReadForExecution(q) \/ Execute(q) \/ RequestFails(q) \/ Dismiss(q)
      PROVE  PendingInv'
  BY <1>4, ReadForExecutionStep, ExecuteStep, RequestFailsStep, DismissStep
<1>5. CASE (\E f \in Fields : OperatorEdits(f)) \/ (\E t \in Types : SetLevel(t))
  BY <1>5, EditsStep
<1>6. CASE UNCHANGED pendingVars
  <2>1. RestOK'
    BY <1>6 DEF pendingVars, PendingInv, PendingTypeOK, RestOK
  <2>2. ClaimsInv'
    BY <1>6, ClaimsUntouched DEF pendingVars, PendingInv
  <2> QED BY <1>6, <2>1, <2>2, OthersStep DEF pendingVars
<1> QED BY <1>1, <1>2, <1>3, <1>4, <1>5, <1>6 DEF PendingNext

\* The types of the variables, the rules of claims and the levels of calls hold in
\* every reachable state.
THEOREM PendingInvariance == PendingSpec => []PendingInv
PROOF
  BY PendingInvInit, PendingInvStep, PTL DEF PendingSpec

\* For any recommendations, runs, requests, edits and errors: an action is carried
\* out at most once, never after it was dismissed, and unasked only at level auto
\* (executeRecommendations, the routes of pending-actions.ts, the tools).
THEOREM DecisionsAreKept == PendingSpec => []DecisionsHold
PROOF
<1>1. PendingInv => DecisionsHold
  <2> SUFFICES ASSUME PendingInv PROVE DecisionsHold
    OBVIOUS
  <2> USE DEF PendingInv, ClaimsInv, PendingTypeOK
  <2>1. \A d \in executed : d = <<d[1], d[2]>> /\ d[2] \in DOMAIN requests
    OBVIOUS
  <2>2. ASSUME NEW d \in executed, NEW e \in executed, d[1] = e[1] PROVE d = e
    <3>1. d[2] = e[2]
      BY <2>1, <2>2 DEF OneClaim, ExecutedClaims
    <3> QED BY <2>1, <2>2, <3>1
  <2>3. \A d \in executed : d[1] \notin refused
    BY <2>1 DEF RefusedUnclaimed, ExecutedClaims
  <2> QED BY <2>2, <2>3 DEF DecisionsHold
<1> QED BY <1>1, PendingInvariance, PTL

-----------------------------------------------------------------------------
(* What automatic actions leave on the ticket *)

\* Item k of a call's list sets field f; it is the last one so far that does.
Sets(call, k, f) == call.list[k].type = f /\ call.list[k].value \in FieldValues
LastSet(call, k, f) ==
    k \in 1 .. call.next - 1 /\ Sets(call, k, f) /\ \A m \in k + 1 .. call.next - 1 : ~Sets(call, m, f)

\* The call takes v for the value of the field, and its list so far leaves it there.
Agrees(call, f, v) == call.local[f] = v /\ \A k : LastSet(call, k, f) => call.list[k].value = v

Follows(r, f) ==
    advice[r].config[f] = "auto" /\ <<r, f>> \notin upset => Agrees(advice[r], f, ticketFields[f])

\* A call that has read the ticket knows its fields, but for those that others
\* wrote since and those where a query failed.
CallFollows(r) ==
    /\ advice[r].at = "loading" => advice[r].next = 1
    /\ advice[r].next <= Len(advice[r].list) + 1
    /\ advice[r].at = "acting" => \A f \in Fields : Follows(r, f)

FollowInv == \A r \in DOMAIN advice : CallFollows(r)

\* A call that goes one item on.
LEMMA AgreesOn ==
    ASSUME NEW call \in Advice, NEW next \in Advice, NEW f, NEW v,
           next.list = call.list, next.next = call.next + 1, next.local[f] = v,
           \/ ~Sets(call, call.next, f) /\ Agrees(call, f, v)
           \/ Sets(call, call.next, f) /\ call.list[call.next].value = v
    PROVE  Agrees(next, f, v)
PROOF
<1>1. call.next \in 1 .. 6 /\ next.next - 1 = call.next
  BY DEF Advice
<1>2. ASSUME NEW k, LastSet(next, k, f) PROVE next.list[k].value = v
  <2>1. k \in 1 .. call.next /\ Sets(call, k, f) /\ \A m \in k + 1 .. call.next : ~Sets(call, m, f)
    BY <1>1, <1>2 DEF LastSet, Sets
  <2>2. CASE k = call.next
    BY <2>1, <2>2 DEF Sets
  <2>3. CASE k # call.next
    <3>1. k \in 1 .. call.next - 1 /\ call.next \in k + 1 .. call.next
      BY <1>1, <2>1, <2>3
    <3>2. ~Sets(call, call.next, f) /\ Agrees(call, f, v)
      BY <2>1, <3>1
    <3>3. \A m \in k + 1 .. call.next - 1 : m \in k + 1 .. call.next
      BY <1>1, <3>1
    <3>4. LastSet(call, k, f)
      BY <2>1, <3>1, <3>3 DEF LastSet
    <3> QED BY <3>2, <3>4 DEF Agrees
  <2> QED BY <2>2, <2>3
<1> QED BY <1>2 DEF Agrees

\* Who does not write goes on following, when it is noted what others write.
LEMMA GoesOnFollowing ==
    ASSUME NEW r \in DOMAIN advice, CallFollows(r), advice'[r] = advice[r],
           \A f \in Fields : /\ <<r, f>> \in upset => <<r, f>> \in upset'
                             /\ ticketFields'[f] = ticketFields[f] \/ <<r, f>> \in upset'
    PROVE  CallFollows(r)'
PROOF
<1>1. ASSUME NEW f \in Fields, Follows(r, f) PROVE Follows(r, f)'
  BY <1>1 DEF Follows
<1> QED BY <1>1 DEF CallFollows

\* What a write does, and to whom it is noted.
LEMMA WriteNoted ==
    ASSUME PendingTypeOK, NEW g \in Fields, NEW v, NEW mine, Write(g, v, mine)
    PROVE  /\ ticketFields'[g] = v
           /\ \A f \in Fields : f # g => ticketFields'[f] = ticketFields[f]
           /\ \A r, f : <<r, f>> \in upset => <<r, f>> \in upset'
           /\ \A r \in DOMAIN advice : r \notin mine => <<r, g>> \in upset'
PROOF
<1>1. ticketFields' = [ticketFields EXCEPT ![g] = v] /\ upset' = upset \cup ((DOMAIN advice \ mine) \X {g})
  BY DEF Write
<1>2. ticketFields \in [Fields -> FieldValues]
  BY DEF PendingTypeOK
<1> QED BY <1>1, <1>2

\* Who is not writing: every call goes on following.
LEMMA AllGoOn ==
    ASSUME PendingTypeOK, FollowInv, UNCHANGED advice,
           \/ UNCHANGED <<ticketFields, upset>>
           \/ \E g \in Fields, v \in FieldValues : Write(g, v, {})
    PROVE  FollowInv'
PROOF
<1>1. ASSUME NEW r \in DOMAIN advice, NEW f \in Fields
      PROVE  /\ <<r, f>> \in upset => <<r, f>> \in upset'
             /\ ticketFields'[f] = ticketFields[f] \/ <<r, f>> \in upset'
  <2>1. CASE UNCHANGED <<ticketFields, upset>>
    BY <2>1
  <2>2. ASSUME NEW g \in Fields, NEW v \in FieldValues, Write(g, v, {})
        PROVE  /\ <<r, f>> \in upset => <<r, f>> \in upset'
               /\ ticketFields'[f] = ticketFields[f] \/ <<r, f>> \in upset'
    BY <2>2, WriteNoted
  <2> QED BY <2>1, <2>2
<1>2. \A r \in DOMAIN advice : CallFollows(r)'
  BY <1>1, GoesOnFollowing DEF FollowInv
<1> QED BY <1>2 DEF FollowInv

LEMMA FollowsAtStart ==
    ASSUME PendingInv, FollowInv, NEW list \in Recommendations, Recommend(list)
    PROVE  FollowInv'
PROOF
<1> DEFINE call == [at |-> "loading", list |-> list, next |-> 1,
                    config |-> [t \in Types |-> Level(levels, t)], local |-> ticketFields]
<1>1. call.at = "loading" /\ call.next = 1 /\ call.list = list
  OBVIOUS
<1>2. advice' = Append(advice, call) /\ UNCHANGED <<ticketFields, upset>>
  BY DEF Recommend
<1> HIDE DEF call
<1>3. PICK new : /\ DOMAIN advice' = DOMAIN advice \cup {new}
                 /\ \A r \in DOMAIN advice : advice'[r] = advice[r]
                 /\ advice'[new] = call
  <2>1. /\ DOMAIN advice' = DOMAIN advice \cup {Len(advice) + 1}
        /\ \A r \in DOMAIN advice : advice'[r] = advice[r]
        /\ advice'[Len(advice) + 1] = call
    BY <1>2 DEF PendingInv, PendingTypeOK
  <2> QED BY <2>1
<1>4. \A r \in DOMAIN advice : CallFollows(r)'
  BY <1>2, <1>3, GoesOnFollowing DEF FollowInv
<1>5. 1 <= Len(list) + 1
  BY PendingAssumption
<1>6. CallFollows(new)'
  BY <1>1, <1>3, <1>5 DEF CallFollows
<1> QED BY <1>3, <1>4, <1>6 DEF FollowInv

LEMMA FollowsWhenLoaded ==
    ASSUME PendingInv, FollowInv, NEW r \in DOMAIN advice, LoadTicket(r)
    PROVE  FollowInv'
PROOF
<1> DEFINE call == [advice[r] EXCEPT !.at = "acting", !.local = ticketFields]
<1>1. advice \in Seq(Advice) /\ advice[r] \in Advice
  BY DEF PendingInv, PendingTypeOK
<1>2. /\ call.at = "acting" /\ call.local = ticketFields /\ call.next = advice[r].next
      /\ call.list = advice[r].list
  BY <1>1 DEF Advice
<1>3. advice' = [advice EXCEPT ![r] = call] /\ UNCHANGED ticketFields /\ upset' = upset \ ({r} \X Fields)
      /\ advice[r].at = "loading"
  BY DEF LoadTicket
<1> HIDE DEF call
<1>4. DOMAIN advice' = DOMAIN advice /\ advice'[r] = call
      /\ \A s \in DOMAIN advice : s # r => advice'[s] = advice[s]
  BY <1>1, <1>3
<1>5. \A s \in DOMAIN advice : s # r => CallFollows(s)'
  BY <1>3, <1>4, GoesOnFollowing DEF FollowInv
<1>6. CallFollows(r)'
  <2>1. call.next = 1 /\ call.next <= Len(call.list) + 1
    BY <1>2, <1>3 DEF FollowInv, CallFollows
  <2>2. \A f \in Fields : Agrees(call, f, ticketFields[f])
    <3>1. \A k, f : ~LastSet(call, k, f)
      BY <2>1 DEF LastSet
    <3> QED BY <1>2, <3>1 DEF Agrees
  <2> QED BY <1>2, <1>3, <1>4, <2>1, <2>2 DEF CallFollows, Follows
<1> QED BY <1>4, <1>5, <1>6 DEF FollowInv

\* A call at an item of its list.
LEMMA ItemTypes ==
    ASSUME PendingInv, FollowInv, NEW r \in DOMAIN advice, Acting(r)
    PROVE  /\ advice[r] \in Advice /\ advice \in Seq(Advice)
           /\ advice[r].next + 1 <= Len(advice[r].list) + 1
           /\ advice[r].next \in Nat \ {0} /\ advice[r].at = "acting"
           /\ Current(r) = advice[r].list[advice[r].next]
           /\ \A f \in Fields : Follows(r, f)
PROOF
<1>1. advice[r] \in Advice /\ advice \in Seq(Advice)
  BY DEF PendingInv, PendingTypeOK
<1>2. advice[r].list \in Seq(Action) /\ advice[r].next \in 1 .. 6 /\ Len(advice[r].list) \in Nat
  BY <1>1, PendingAssumption DEF Advice
<1> QED BY <1>1, <1>2 DEF FollowInv, CallFollows, Acting, Current

\* A call has dealt with an item, the others look on.
LEMMA FollowsNext ==
    ASSUME PendingInv, FollowInv, NEW r \in DOMAIN advice, Acting(r), NEW call \in Advice,
           advice' = [advice EXCEPT ![r] = call],
           call.list = advice[r].list, call.next = advice[r].next + 1, call.at = "acting",
           call.config = advice[r].config,
           \A s \in DOMAIN advice, f \in Fields :
             /\ <<s, f>> \in upset => <<s, f>> \in upset'
             /\ s # r => ticketFields'[f] = ticketFields[f] \/ <<s, f>> \in upset',
           \A f \in Fields : advice[r].config[f] = "auto" /\ <<r, f>> \notin upset' =>
             /\ call.local[f] = ticketFields'[f]
             /\ IF Sets(advice[r], advice[r].next, f) THEN Current(r).value = ticketFields'[f]
                ELSE ticketFields'[f] = ticketFields[f]
    PROVE  FollowInv'
PROOF
<1>1. DOMAIN advice' = DOMAIN advice /\ advice'[r] = call
      /\ \A s \in DOMAIN advice : s # r => advice'[s] = advice[s]
  BY ItemTypes
<1>2. \A s \in DOMAIN advice : s # r => CallFollows(s)'
  BY <1>1, GoesOnFollowing DEF FollowInv
<1>3. ASSUME NEW f \in Fields, call.config[f] = "auto", <<r, f>> \notin upset'
      PROVE  Agrees(call, f, ticketFields'[f])
  <2>1. <<r, f>> \notin upset /\ advice[r].config[f] = "auto"
    BY <1>3
  <2>2. Agrees(advice[r], f, ticketFields[f])
    BY <2>1, ItemTypes DEF Follows
  <2>3. \/ ~Sets(advice[r], advice[r].next, f) /\ Agrees(advice[r], f, ticketFields'[f])
        \/ Sets(advice[r], advice[r].next, f) /\ advice[r].list[advice[r].next].value = ticketFields'[f]
    BY <1>3, <2>1, <2>2, ItemTypes
  <2>4. call.local[f] = ticketFields'[f] /\ advice[r] \in Advice
    BY <1>3, <2>1, ItemTypes
  <2> QED BY <2>3, <2>4, AgreesOn
<1>4. CallFollows(r)'
  <2>1. \A f \in Fields : Follows(r, f)'
    BY <1>1, <1>3 DEF Follows
  <2> QED BY <1>1, <2>1, ItemTypes DEF CallFollows
<1> QED BY <1>1, <1>2, <1>4 DEF FollowInv

LEMMA FollowsAuto ==
    ASSUME PendingInv, FollowInv, NEW r \in DOMAIN advice, AutoExecute(r)
    PROVE  FollowInv'
PROOF
<1> DEFINE a == Current(r)
<1>1. Automatic(r) /\ Acting(r) /\ advice[r] \in Advice /\ a = advice[r].list[advice[r].next]
  BY ItemTypes DEF AutoExecute, Automatic
<1>2. \A f \in Fields : Follows(r, f)
  BY <1>1, ItemTypes
<1>3. advice[r].local \in [Fields -> FieldValues] /\ ticketFields \in [Fields -> FieldValues]
      /\ advice[r].at = "acting"
  BY <1>1 DEF Advice, PendingInv, PendingTypeOK, Acting
<1>4. a.type = "comment" => a.type \notin Fields
  BY PendingAssumption
<1>5. CASE Effective(a, advice[r].local) /\ a.type \in Fields
  <2> DEFINE local == [advice[r].local EXCEPT ![a.type] = a.value]
             call == [advice[r] EXCEPT !.next = @ + 1, !.local = local]
  <2>1. a.value \in FieldValues
    BY <1>4, <1>5 DEF Effective
  <2>2. Write(a.type, a.value, {r}) /\ advice' = [advice EXCEPT ![r] = call]
    BY <1>5 DEF AutoExecute, Tracked
  <2>3. local \in [Fields -> FieldValues]
    BY <1>3, <1>5, <2>1
  <2>4. local[a.type] = a.value /\ \A f \in Fields : f # a.type => local[f] = advice[r].local[f]
    BY <1>3, <1>5
  <2> HIDE DEF local
  <2>5. /\ call \in Advice /\ call.config = advice[r].config /\ call.local = local
        /\ call.list = advice[r].list /\ call.next = advice[r].next + 1 /\ call.at = "acting"
    <3>1. call \in Advice /\ call.config = advice[r].config
      BY <1>1, <2>3, NextOfCall
    <3> QED BY <1>1, <1>3, <3>1 DEF Advice
  <2> HIDE DEF call
  <2>6. /\ ticketFields'[a.type] = a.value
        /\ \A f \in Fields : f # a.type => ticketFields'[f] = ticketFields[f]
        /\ \A s, f : <<s, f>> \in upset => <<s, f>> \in upset'
        /\ \A s \in DOMAIN advice : s # r => <<s, a.type>> \in upset'
    BY <1>5, <2>2, WriteNoted DEF PendingInv
  <2>7. ASSUME NEW f \in Fields, advice[r].config[f] = "auto", <<r, f>> \notin upset'
        PROVE  /\ call.local[f] = ticketFields'[f]
               /\ IF Sets(advice[r], advice[r].next, f) THEN a.value = ticketFields'[f]
                  ELSE ticketFields'[f] = ticketFields[f]
    <3>1. advice[r].local[f] = ticketFields[f]
      BY <1>2, <2>6, <2>7 DEF Follows, Agrees
    <3> QED BY <1>1, <2>1, <2>4, <2>5, <2>6, <3>1 DEF Sets
  <2> QED BY <1>1, <2>2, <2>5, <2>6, <2>7, FollowsNext
<1>6. CASE ~(Effective(a, advice[r].local) /\ a.type \in Fields)
  <2> DEFINE call == [advice[r] EXCEPT !.next = @ + 1]
  <2>1. UNCHANGED <<ticketFields, upset>>
    BY <1>6 DEF AutoExecute
  <2>2. advice' = [advice EXCEPT ![r] = call]
    <3>1. CASE ~Effective(a, advice[r].local)
      BY <3>1 DEF AutoExecute
    <3>2. CASE Effective(a, advice[r].local) /\ a.type \notin Fields
      <4>1. advice' = [advice EXCEPT ![r].next = @ + 1, ![r].local = advice[r].local]
        BY <3>2 DEF AutoExecute, Tracked
      <4>2. [advice[r] EXCEPT !.next = @ + 1, !.local = advice[r].local] = call
        BY <1>1 DEF Advice
      <4> QED BY <4>1, <4>2
    <3> QED BY <1>6, <3>1, <3>2
  <2>3. /\ call \in Advice /\ call.config = advice[r].config /\ call.local = advice[r].local
        /\ call.list = advice[r].list /\ call.next = advice[r].next + 1 /\ call.at = "acting"
    <3>1. call \in Advice /\ call.config = advice[r].config
      BY <1>1, <1>3, NextOfCall
    <3> QED BY <1>1, <1>3, <3>1 DEF Advice
  <2> HIDE DEF call
  <2>4. ASSUME NEW f \in Fields, advice[r].config[f] = "auto", <<r, f>> \notin upset'
        PROVE  /\ call.local[f] = ticketFields'[f]
               /\ IF Sets(advice[r], advice[r].next, f) THEN a.value = ticketFields'[f]
                  ELSE ticketFields'[f] = ticketFields[f]
    <3>1. advice[r].local[f] = ticketFields[f]
      BY <1>2, <2>1, <2>4 DEF Follows, Agrees
    <3>2. a.type = f /\ a.value \in FieldValues => a.value = advice[r].local[f]
      BY <1>6 DEF Effective
    <3> QED BY <1>1, <2>1, <2>3, <3>1, <3>2 DEF Sets
  <2> QED BY <1>1, <2>1, <2>2, <2>3, <2>4, FollowsNext
<1> QED BY <1>5, <1>6

LEMMA FollowsAutoFails ==
    ASSUME PendingInv, FollowInv, NEW r \in DOMAIN advice, AutoExecuteFails(r)
    PROVE  FollowInv'
PROOF
<1> DEFINE a == Current(r)
           call == [advice[r] EXCEPT !.next = @ + 1]
<1>1. Automatic(r) /\ Acting(r) /\ advice[r] \in Advice /\ a = advice[r].list[advice[r].next]
      /\ a.type \in Fields
  BY ItemTypes DEF AutoExecuteFails, Automatic
<1>2. \A f \in Fields : Follows(r, f)
  BY <1>1, ItemTypes
<1>3. advice[r].local \in [Fields -> FieldValues] /\ advice[r].at = "acting"
  BY <1>1 DEF Advice, Acting
<1>4. advice' = [advice EXCEPT ![r] = call]
  BY DEF AutoExecuteFails
<1>5. /\ call \in Advice /\ call.config = advice[r].config /\ call.local = advice[r].local
      /\ call.list = advice[r].list /\ call.next = advice[r].next + 1 /\ call.at = "acting"
  <2>1. call \in Advice /\ call.config = advice[r].config
    BY <1>1, <1>3, NextOfCall
  <2> QED BY <1>1, <1>3, <2>1 DEF Advice
<1> HIDE DEF call
<1>6. /\ <<r, a.type>> \in upset'
      /\ \A f \in Fields : f # a.type => ticketFields'[f] = ticketFields[f]
      /\ \A s, f : <<s, f>> \in upset => <<s, f>> \in upset'
      /\ \A s \in DOMAIN advice : ticketFields'[a.type] = ticketFields[a.type] \/ <<s, a.type>> \in upset'
  <2>1. CASE Write(a.type, a.value, {})
    BY <1>1, <2>1, WriteNoted DEF PendingInv
  <2>2. CASE upset' = upset \cup {<<r, a.type>>} /\ UNCHANGED ticketFields
    BY <2>2
  <2> QED BY <2>1, <2>2 DEF AutoExecuteFails
<1>7. ASSUME NEW f \in Fields, advice[r].config[f] = "auto", <<r, f>> \notin upset'
      PROVE  /\ call.local[f] = ticketFields'[f]
             /\ IF Sets(advice[r], advice[r].next, f) THEN a.value = ticketFields'[f]
                ELSE ticketFields'[f] = ticketFields[f]
  <2>1. f # a.type /\ advice[r].local[f] = ticketFields[f]
    BY <1>2, <1>6, <1>7 DEF Follows, Agrees
  <2>2. ~Sets(advice[r], advice[r].next, f)
    BY <1>1, <2>1 DEF Sets
  <2>3. ticketFields'[f] = ticketFields[f] /\ call.local[f] = advice[r].local[f]
    BY <1>5, <1>6, <2>1
  <2> QED BY <2>1, <2>2, <2>3
<1>8. \A s \in DOMAIN advice, f \in Fields :
        /\ <<s, f>> \in upset => <<s, f>> \in upset'
        /\ s # r => ticketFields'[f] = ticketFields[f] \/ <<s, f>> \in upset'
  BY <1>6
<1>9. \A f \in Fields : advice[r].config[f] = "auto" /\ <<r, f>> \notin upset' =>
        /\ call.local[f] = ticketFields'[f]
        /\ IF Sets(advice[r], advice[r].next, f) THEN a.value = ticketFields'[f]
           ELSE ticketFields'[f] = ticketFields[f]
  BY <1>7
<1> QED BY <1>1, <1>4, <1>5, <1>8, <1>9, FollowsNext

LEMMA FollowsQueue ==
    ASSUME PendingInv, FollowInv, NEW r \in DOMAIN advice, Queue(r)
    PROVE  FollowInv'
PROOF
<1>1. Acting(r) /\ advice[r] \in Advice /\ Current(r) = advice[r].list[advice[r].next]
  BY ItemTypes DEF Queue
<1>2. advice[r].local \in [Fields -> FieldValues] /\ advice[r].at = "acting"
  BY <1>1 DEF Advice, Acting
<1>3. UNCHANGED <<ticketFields, upset>> /\ ~Automatic(r)
  BY DEF Queue, actionHistory
<1>4. CASE advice' = [advice EXCEPT ![r].next = @ + 1]
  <2> DEFINE call == [advice[r] EXCEPT !.next = @ + 1]
  <2>1. /\ call \in Advice /\ call.config = advice[r].config /\ call.local = advice[r].local
        /\ call.list = advice[r].list /\ call.next = advice[r].next + 1 /\ call.at = "acting"
    <3>1. call \in Advice /\ call.config = advice[r].config
      BY <1>1, <1>2, NextOfCall
    <3> QED BY <1>1, <1>2, <3>1 DEF Advice
  <2>2. advice' = [advice EXCEPT ![r] = call]
    BY <1>4
  <2> HIDE DEF call
  <2>3. ASSUME NEW f \in Fields, advice[r].config[f] = "auto", <<r, f>> \notin upset'
        PROVE  /\ call.local[f] = ticketFields'[f]
               /\ IF Sets(advice[r], advice[r].next, f) THEN Current(r).value = ticketFields'[f]
                  ELSE ticketFields'[f] = ticketFields[f]
    <3>1. Current(r).type # f
      BY <1>1, <1>3, <2>3 DEF Automatic
    <3>2. advice[r].local[f] = ticketFields[f]
      BY <1>1, <1>3, <2>3, ItemTypes DEF Follows, Agrees
    <3>3. ~Sets(advice[r], advice[r].next, f)
      BY <1>1, <3>1 DEF Sets
    <3>4. ticketFields'[f] = ticketFields[f] /\ call.local[f] = advice[r].local[f]
      BY <1>3, <2>1
    <3> QED BY <3>2, <3>3, <3>4
  <2>4. \A s \in DOMAIN advice, f \in Fields :
          /\ <<s, f>> \in upset => <<s, f>> \in upset'
          /\ s # r => ticketFields'[f] = ticketFields[f] \/ <<s, f>> \in upset'
    BY <1>3
  <2>5. \A f \in Fields : advice[r].config[f] = "auto" /\ <<r, f>> \notin upset' =>
          /\ call.local[f] = ticketFields'[f]
          /\ IF Sets(advice[r], advice[r].next, f) THEN Current(r).value = ticketFields'[f]
             ELSE ticketFields'[f] = ticketFields[f]
    BY <2>3
  <2> QED BY <1>1, <2>1, <2>2, <2>4, <2>5, FollowsNext
<1>5. CASE advice' = [advice EXCEPT ![r].at = "failed"]
  <2> DEFINE call == [advice[r] EXCEPT !.at = "failed"]
  <2>1. call.at = "failed" /\ call.next = advice[r].next /\ call.list = advice[r].list
    BY <1>1 DEF Advice
  <2>2. advice' = [advice EXCEPT ![r] = call]
    BY <1>5
  <2> HIDE DEF call
  <2>3. DOMAIN advice' = DOMAIN advice /\ advice'[r] = call
        /\ \A s \in DOMAIN advice : s # r => advice'[s] = advice[s]
    BY <1>1, <2>2, ItemTypes
  <2>4. \A s \in DOMAIN advice : s # r => CallFollows(s)'
    BY <1>3, <2>3, GoesOnFollowing DEF FollowInv
  <2>5. CallFollows(r)'
    BY <2>1, <2>3 DEF FollowInv, CallFollows
  <2> QED BY <2>3, <2>4, <2>5 DEF FollowInv
<1> QED BY <1>4, <1>5 DEF Queue

LEMMA FollowInvStep == PendingInv /\ FollowInv /\ [PendingNext]_pendingVars => FollowInv'
PROOF
<1> SUFFICES ASSUME PendingInv, FollowInv, [PendingNext]_pendingVars PROVE FollowInv'
  OBVIOUS
<1>0. PendingTypeOK
  BY DEF PendingInv
<1>1. ASSUME NEW list \in Recommendations, Recommend(list) PROVE FollowInv'
  BY <1>1, FollowsAtStart
<1>2. ASSUME NEW r \in DOMAIN advice, LoadTicket(r) \/ AutoExecute(r) \/ AutoExecuteFails(r) \/ Queue(r)
      PROVE  FollowInv'
  BY <1>2, FollowsWhenLoaded, FollowsAuto, FollowsAutoFails, FollowsQueue
<1>3. ASSUME NEW i \in DOMAIN pending, Approve(i) \/ LookForDismissal(i) \/ ToolApproves(i) \/ ToolDismisses(i)
      PROVE  FollowInv'
  BY <1>0, <1>3, AllGoOn DEF Approve, LookForDismissal, ToolApproves, ToolDismisses, actionHistory
<1>4. ASSUME NEW q \in DOMAIN requests, ReadForExecution(q) \/ RequestFails(q) \/ Dismiss(q)
      PROVE  FollowInv'
  BY <1>0, <1>4, AllGoOn DEF ReadForExecution, RequestFails, Dismiss, actionHistory
<1>5. ASSUME NEW q \in DOMAIN requests, Execute(q) PROVE FollowInv'
  <2> DEFINE a == pending[requests[q].row].action
  <2>1. UNCHANGED advice
    BY <1>5 DEF Execute
  <2>2. CASE Effective(a, requests[q].saw) /\ a.type \in Fields
    <3>1. a.value \in FieldValues
      BY <2>2, PendingAssumption DEF Effective
    <3>2. Write(a.type, a.value, {})
      BY <1>5, <2>2 DEF Execute
    <3> QED BY <1>0, <2>1, <2>2, <3>1, <3>2, AllGoOn
  <2>3. CASE ~(Effective(a, requests[q].saw) /\ a.type \in Fields)
    <3>1. UNCHANGED <<ticketFields, upset>>
      BY <1>5, <2>3 DEF Execute
    <3> QED BY <1>0, <2>1, <3>1, AllGoOn
  <2> QED BY <2>2, <2>3
<1>6. ASSUME NEW f \in Fields, OperatorEdits(f) PROVE FollowInv'
  BY <1>0, <1>6, AllGoOn DEF OperatorEdits
<1>7. ASSUME NEW t \in Types, SetLevel(t) PROVE FollowInv'
  BY <1>0, <1>7, AllGoOn DEF SetLevel
<1>8. CASE UNCHANGED pendingVars
  BY <1>0, <1>8, AllGoOn DEF pendingVars
<1> QED BY <1>1, <1>2, <1>3, <1>4, <1>5, <1>6, <1>7, <1>8 DEF PendingNext

\* For any recommendations, runs, requests, edits and errors: a call that has gone
\* through its list leaves each automatic field as the list sets it last, unless
\* others wrote it or a query failed (executeRecommendations).
THEOREM AdviceIsTaken == PendingSpec => []AdviceTaken
PROOF
<1>1. PendingInit => FollowInv
  BY DEF PendingInit, FollowInv
<1>2. PendingInv /\ FollowInv => AdviceTaken
  <2> SUFFICES ASSUME PendingInv, FollowInv, NEW r \in DOMAIN advice, NEW f \in Fields,
                      advice[r].at = "acting", ~Acting(r),
                      advice[r].config[f] = "auto", <<r, f>> \notin upset,
                      NEW k \in 1 .. Len(advice[r].list),
                      Sets(advice[r], k, f),
                      \A j \in 1 .. Len(advice[r].list) : Sets(advice[r], j, f) => j <= k
               PROVE  ticketFields[f] = advice[r].list[k].value
    BY DEF AdviceTaken, LastWish, Sets
  <2>1. advice[r] \in Advice
    BY DEF PendingInv, PendingTypeOK
  <2>2. advice[r].next \in 1 .. 6 /\ Len(advice[r].list) \in Nat
    BY <2>1, PendingAssumption DEF Advice
  <2>3. advice[r].next - 1 = Len(advice[r].list)
    BY <2>2 DEF Acting, FollowInv, CallFollows
  <2>4. ASSUME NEW m \in k + 1 .. Len(advice[r].list) PROVE ~Sets(advice[r], m, f)
    <3>1. m \in 1 .. Len(advice[r].list) /\ ~(m <= k)
      BY <2>2
    <3> QED BY <3>1
  <2>5. LastSet(advice[r], k, f)
    BY <2>3, <2>4 DEF LastSet
  <2>6. Agrees(advice[r], f, ticketFields[f])
    BY DEF FollowInv, CallFollows, Follows
  <2> QED BY <2>5, <2>6 DEF Agrees
<1> QED BY <1>1, <1>2, FollowInvStep, PendingInvariance, PTL DEF PendingSpec

-----------------------------------------------------------------------------
(***************************************************************************)
(* The strategist                                                          *)
(***************************************************************************)

-----------------------------------------------------------------------------
(* Types *)

\* Strengthened by what a strategist at work has left of its calls, and by what
\* is under way.
TypesHold ==
    /\ StrategistTypeOK
    /\ phase = "asking" => inner < MaxInner
    /\ phase = "dispatched" => dispatch.size \in 1 .. MaxSubTasks /\ dispatch.plan \in Plans

\* Types and bounds of the constants, one by one.
LEMMA Constants ==
    /\ Costs \subseteq Nat
    /\ ToolCalls \subseteq Nat \ {0}
    /\ MaxRounds \in Nat \ {0} /\ MaxInner \in Nat \ {0} /\ MaxSubTasks \in Nat \ {0}
    /\ SubTaskTokens \in Nat \ {0} /\ SubTaskRounds \in Nat \ {0} /\ SubTaskCalls \in Nat \ {0} /\ TicketTokens \in Nat \ {0}
    /\ SubTaskStop \in Nat /\ TicketStop \in Nat /\ CumulativeStop \in Nat /\ ConsecutiveStop \in Nat
  BY StrategistAssumption

\* The largest cost of a call is one.
LEMMA LargestCostIs ==
    /\ LargestCost \in Costs /\ LargestCost \in Nat
    /\ \A d \in Costs : d <= LargestCost
<1>1. \E c \in Costs : \A d \in Costs : d <= c
  BY StrategistAssumption
<1>2. LargestCost \in Costs /\ \A d \in Costs : d <= LargestCost
  BY <1>1 DEF LargestCost
<1> QED BY <1>2, Constants

\* A sub-task that comes back is added to its batch, or begins again.
LEMMA ReturnsDoes ==
    ASSUME NEW t, NEW x \in BOOLEAN, Returns(t, x)
    PROVE  \/ /\ dispatch' = [dispatch EXCEPT !.ended = @ + 1, !.wrote = @ \/ t.wrote,
                                       !.exhausted = @ + (IF x THEN 1 ELSE 0)]
              /\ tokens' = tokens + t.tokens /\ task' = Fresh
           \/ /\ task' = [Fresh EXCEPT !.attempt = t.attempt, !.again = TRUE]
              /\ dispatch' = dispatch /\ tokens' = tokens
  BY DEF Returns

\* What a sub-task may use beyond its budget: the last call, but for one token.
Over == Max2(LargestCost - 1, 0)

\* The largest cost is at most one more.
LEMMA OverIs == Over \in Nat /\ LargestCost <= Over + 1
  BY LargestCostIs DEF Over, Max2

\* The sub-task under way.
TaskType == [tokens : Nat, rounds : 0 .. SubTaskRounds, calls : Nat, wrote : BOOLEAN, attempt : {1, 2}, again : BOOLEAN]

\* What a sub-task that returns does to the batch, field by field.
LEMMA ReturnsFields ==
    ASSUME TypesHold, Running, NEW t \in TaskType, NEW x \in BOOLEAN, Returns(t, x)
    PROVE  /\ dispatch' \in BatchType /\ task' \in TaskType /\ tokens' \in Nat
           /\ dispatch'.plan = dispatch.plan /\ dispatch'.size = dispatch.size
           /\ dispatch'.exhausted <= dispatch'.ended /\ dispatch'.ended <= dispatch'.size
           /\ \/ /\ dispatch'.ended = dispatch.ended + 1 /\ tokens' = tokens + t.tokens /\ task' = Fresh
              \/ /\ dispatch' = dispatch /\ tokens' = tokens
                 /\ task'.tokens = 0
<1>1. Fresh \in TaskType /\ Fresh.tokens = 0
  BY Constants DEF Fresh, TaskType
<1>2. /\ dispatch \in BatchType /\ dispatch.exhausted <= dispatch.ended /\ dispatch.ended < dispatch.size
      /\ tokens \in Nat
  BY DEF TypesHold, StrategistTypeOK, Running
<1>3. CASE /\ dispatch' = [dispatch EXCEPT !.ended = @ + 1, !.wrote = @ \/ t.wrote,
                                   !.exhausted = @ + (IF x THEN 1 ELSE 0)]
           /\ tokens' = tokens + t.tokens /\ task' = Fresh
  <2>1. /\ dispatch'.ended = dispatch.ended + 1 /\ dispatch'.plan = dispatch.plan /\ dispatch'.size = dispatch.size
        /\ dispatch'.exhausted = dispatch.exhausted + (IF x THEN 1 ELSE 0)
    BY <1>2, <1>3 DEF BatchType
  <2>2. dispatch' \in BatchType
    <3>1. (dispatch.wrote \/ t.wrote) \in BOOLEAN
      OBVIOUS
    <3>2. dispatch.ended + 1 \in Nat /\ dispatch.exhausted + (IF x THEN 1 ELSE 0) \in Nat
      BY <1>2 DEF BatchType
    <3> QED BY <1>2, <1>3, <3>1, <3>2 DEF BatchType
  <2>3. dispatch'.exhausted <= dispatch'.ended /\ dispatch'.ended <= dispatch'.size
    BY <1>2, <2>1 DEF BatchType
  <2>4. tokens' \in Nat
    BY <1>2, <1>3 DEF TaskType
  <2> QED BY <1>1, <1>3, <2>1, <2>2, <2>3, <2>4
<1>4. CASE /\ task' = [Fresh EXCEPT !.attempt = t.attempt, !.again = TRUE]
           /\ dispatch' = dispatch /\ tokens' = tokens
  <2>1. task' \in TaskType /\ task'.tokens = 0
    BY <1>1, <1>4 DEF TaskType, Fresh
  <2> QED BY <1>2, <1>4, <2>1 DEF BatchType
<1> QED BY <1>3, <1>4, ReturnsDoes

\* At the start.
LEMMA TypesInit == StrategistInit => TypesHold
<1> SUFFICES ASSUME StrategistInit PROVE TypesHold
  OBVIOUS
<1>1. /\ phase = "asking" /\ round = 1 /\ inner = 0 /\ tokens = 0 /\ asked = 0
      /\ ticketStop \in BOOLEAN /\ guardStop \in BOOLEAN
  BY DEF StrategistInit
<1>7. round \in 1 .. MaxRounds /\ inner \in 0 .. MaxInner /\ inner < MaxInner /\ tokens \in Nat /\ asked \in Nat
  BY <1>1, Constants
<1>2. guard \in [exhausted : Nat, total : Nat, bad : Nat]
  BY DEF StrategistInit
<1>3. stall \in [last : Plans \cup {"none"}, same : Nat, wrote : BOOLEAN, completed : Nat]
  BY DEF StrategistInit
<1>4. dispatch \in BatchType /\ dispatch.exhausted <= dispatch.ended /\ dispatch.ended <= dispatch.size
  BY DEF StrategistInit, BatchType, NoBatch
<1>5. task \in [tokens : Nat, rounds : 0 .. SubTaskRounds, calls : Nat, wrote : BOOLEAN,
                attempt : {1, 2}, again : BOOLEAN]
  BY Constants DEF StrategistInit, Fresh
<1>6. batches \in Seq(BatchType)
  BY DEF StrategistInit
<1> QED BY <1>1, <1>2, <1>3, <1>4, <1>5, <1>6, <1>7 DEF TypesHold, StrategistTypeOK

\* A step of the sub-task under way: the batch and the ticket's account get what
\* it used when it is through; a sub-task that has used up its budget makes no call.
LEMMA TaskDoes ==
    ASSUME TypesHold, TaskTurns \/ TaskExhausted \/ TaskFails
    PROVE  /\ phase = "dispatched" /\ dispatch.ended < dispatch.size
           /\ UNCHANGED <<loopVars, guardStop, guard, stall, batches, asked>>
           /\ dispatch' \in BatchType /\ task' \in TaskType /\ tokens' \in Nat
           /\ dispatch'.plan = dispatch.plan /\ dispatch'.size = dispatch.size
           /\ dispatch'.exhausted <= dispatch'.ended /\ dispatch'.ended <= dispatch'.size
           /\ task.tokens <= SubTaskTokens + Over => task'.tokens <= SubTaskTokens + Over
           /\ \/ /\ dispatch'.ended = dispatch.ended + 1
                 /\ task.tokens <= SubTaskTokens + Over => tokens' <= tokens + SubTaskTokens + Over
              \/ dispatch' = dispatch /\ tokens' = tokens
           /\ tokens <= tokens'
PROOF
<1>1. /\ phase = "dispatched" /\ dispatch.ended < dispatch.size /\ Running
      /\ UNCHANGED <<loopVars, guardStop, guard, stall, batches, asked>>
  BY DEF TaskTurns, TaskExhausted, TaskFails, Running
<1>2. task \in TaskType /\ tokens \in Nat /\ dispatch \in BatchType
      /\ dispatch.exhausted <= dispatch.ended
  BY DEF TypesHold, StrategistTypeOK, TaskType
<1>3. Fresh \in TaskType /\ Fresh.tokens = 0
  BY Constants DEF Fresh, TaskType
<1>4. ASSUME NEW t \in TaskType, NEW x \in BOOLEAN, Returns(t, x),
             task.tokens <= SubTaskTokens + Over => t.tokens <= SubTaskTokens + Over
      PROVE  /\ dispatch' \in BatchType /\ task' \in TaskType /\ tokens' \in Nat
             /\ dispatch'.plan = dispatch.plan /\ dispatch'.size = dispatch.size
             /\ dispatch'.exhausted <= dispatch'.ended /\ dispatch'.ended <= dispatch'.size
             /\ task.tokens <= SubTaskTokens + Over => task'.tokens <= SubTaskTokens + Over
             /\ \/ /\ dispatch'.ended = dispatch.ended + 1
                   /\ task.tokens <= SubTaskTokens + Over => tokens' <= tokens + SubTaskTokens + Over
                \/ dispatch' = dispatch /\ tokens' = tokens
             /\ tokens <= tokens'
  <2>1. t.tokens \in Nat
    BY <1>4 DEF TaskType
  <2> QED BY <1>1, <1>2, <1>3, <1>4, <2>1, ReturnsFields, OverIs, Constants
<1>5. CASE TaskTurns
  <2>1. PICK c \in Costs, w \in {task.wrote, task.wrote \/ ~Restricted(task)} :
          LET t == [task EXCEPT !.tokens = @ + c, !.rounds = @ + 1, !.wrote = w]
          IN  \/ /\ ~Restricted(task)
                 /\ \E k \in ToolCalls : task' = [t EXCEPT !.calls = @ + k]
                 /\ UNCHANGED <<dispatch, tokens>>
              \/ Returns(t, FALSE)
    BY <1>5 DEF TaskTurns
  <2> DEFINE t == [task EXCEPT !.tokens = @ + c, !.rounds = @ + 1, !.wrote = w]
  <2>2. c \in Nat /\ c <= Over + 1
    BY OverIs, LargestCostIs, Constants
  <2>3. w \in BOOLEAN
    BY <1>2 DEF TaskType
  <2>4. task.tokens \in Nat /\ task.tokens < SubTaskTokens /\ task.rounds \in Nat /\ task.rounds < SubTaskRounds
    <3>1. ~UsedUp(task)
      BY <1>5 DEF TaskTurns
    <3>2. task.tokens \in Nat /\ task.rounds \in Nat /\ task.calls \in Nat
      BY <1>2, Constants DEF TaskType
    <3> QED BY <3>1, <3>2, Constants DEF UsedUp
  <2>5. t \in TaskType /\ t.tokens = task.tokens + c
    <3>1. task.tokens + c \in Nat /\ task.rounds + 1 \in 0 .. SubTaskRounds
      BY <2>2, <2>4, Constants
    <3> QED BY <1>2, <2>3, <3>1 DEF TaskType
  <2>6. t.tokens <= SubTaskTokens + Over
    BY <2>2, <2>4, <2>5, OverIs, Constants
  <2>7. \/ \E k \in ToolCalls : task' = [t EXCEPT !.calls = @ + k] /\ UNCHANGED <<dispatch, tokens>>
        \/ Returns(t, FALSE)
    BY <2>1
  <2> HIDE DEF t
  <2>8. CASE \E k \in ToolCalls : task' = [t EXCEPT !.calls = @ + k] /\ UNCHANGED <<dispatch, tokens>>
    <3>1. PICK k \in ToolCalls : task' = [t EXCEPT !.calls = @ + k]
      BY <2>8
    <3>2. k \in Nat
      BY Constants
    <3>3. task' \in TaskType /\ task'.tokens = t.tokens
      BY <2>5, <3>1, <3>2 DEF TaskType
    <3>4. dispatch.ended <= dispatch.size
      BY <1>1, <1>2 DEF BatchType
    <3> QED BY <1>1, <1>2, <2>6, <2>8, <3>3, <3>4
  <2>9. CASE Returns(t, FALSE)
    BY <1>1, <1>4, <2>5, <2>6, <2>9
  <2> QED BY <2>7, <2>8, <2>9
<1>6. CASE TaskExhausted
  <2>1. Returns(task, TRUE)
    BY <1>6 DEF TaskExhausted
  <2> QED BY <1>1, <1>2, <1>4, <2>1
<1>7. CASE TaskFails
  <2>1. CASE Returns(task, FALSE)
    BY <1>1, <1>2, <1>4, <2>1
  <2>2. CASE /\ task' = [Fresh EXCEPT !.attempt = 2]
             /\ UNCHANGED <<dispatch, tokens>>
    <3>1. task' \in TaskType /\ task'.tokens = 0
      BY <1>3, <2>2 DEF TaskType, Fresh
    <3>2. dispatch.ended <= dispatch.size
      BY <1>1, <1>2 DEF BatchType
    <3> QED BY <1>1, <1>2, <2>2, <3>1, <3>2, OverIs, Constants
  <2>3. CASE Returns([Fresh EXCEPT !.again = TRUE], FALSE)
    <3> DEFINE t == [Fresh EXCEPT !.again = TRUE]
    <3>1. t \in TaskType /\ t.tokens = 0
      BY <1>3 DEF TaskType, Fresh
    <3>2. Returns(t, FALSE)
      BY <2>3
    <3>3. t.tokens <= SubTaskTokens + Over
      BY <3>1, OverIs, Constants
    <3> HIDE DEF t
    <3> QED BY <1>1, <1>4, <3>1, <3>2, <3>3
  <2> QED BY <1>7, <2>1, <2>2, <2>3 DEF TaskFails
<1> QED BY <1>5, <1>6, <1>7


\* The next round begins, or the last has been.
LEMMA NextRoundDoes ==
    ASSUME TypesHold, NEW used, NextRound(used)
    PROVE  /\ inner' = 0 /\ ticketStop' \in BOOLEAN /\ round' \in 1 .. MaxRounds
           /\ \/ phase' = "asking" /\ round' = round + 1
              \/ phase' = "concluded" /\ round' = round
<1>1. round \in 1 .. MaxRounds
  BY DEF TypesHold, StrategistTypeOK
<1>2. inner' = 0 /\ ticketStop' \in BOOLEAN
  BY DEF NextRound
<1>3. \/ round < MaxRounds /\ round' = round + 1 /\ phase' = "asking"
      \/ round = MaxRounds /\ phase' = "concluded" /\ round' = round
  BY DEF NextRound
<1> QED BY <1>1, <1>2, <1>3, Constants

\* A step of the strategist between two batches.
LEMMA AsksDoes ==
    ASSUME TypesHold, Completes \/ Reads \/ \E n \in 1 .. MaxSubTasks : DispatchAborted(n)
    PROVE  /\ phase = "asking"
           /\ \E c \in Costs : tokens' = tokens + c /\ asked' = asked + c
           /\ inner' \in 0 .. MaxInner /\ round' \in 1 .. MaxRounds /\ ticketStop' \in BOOLEAN
           /\ phase' \in {"asking", "concluded"}
           /\ phase' = "asking" => inner' < MaxInner
           /\ round <= round'
           /\ guardStop' = guardStop /\ guard' = guard /\ stall' = stall /\ dispatch' = dispatch
           /\ task' = task /\ batches' = batches
<1>1. inner \in 0 .. MaxInner /\ round \in 1 .. MaxRounds /\ ticketStop \in BOOLEAN /\ (phase = "asking" => inner < MaxInner)
  BY DEF TypesHold, StrategistTypeOK
<1>2. CASE Completes
  <2>1. \E c \in Costs : phase = "asking" /\ tokens' = tokens + c /\ asked' = asked + c
    BY <1>2 DEF Completes, Asks
  <2>2. /\ phase' = "concluded" /\ round' = round /\ inner' = inner /\ ticketStop' = ticketStop
        /\ guardStop' = guardStop /\ guard' = guard /\ stall' = stall /\ dispatch' = dispatch
        /\ task' = task /\ batches' = batches
    BY <1>2 DEF Completes
  <2> QED BY <1>1, <2>1, <2>2
<1>3. CASE Reads
  <2>1. \E c \in Costs : phase = "asking" /\ tokens' = tokens + c /\ asked' = asked + c
    BY <1>3 DEF Reads, Asks
  <2>2. /\ inner' = inner + 1 /\ round' = round /\ ticketStop' = ticketStop
        /\ guardStop' = guardStop /\ guard' = guard /\ stall' = stall /\ dispatch' = dispatch
        /\ task' = task /\ batches' = batches
    BY <1>3 DEF Reads
  <2>3. phase' = IF inner + 1 < MaxInner THEN "asking" ELSE "concluded"
    BY <1>3 DEF Reads
  <2> QED BY <1>1, <2>1, <2>2, <2>3, Constants
<1>4. CASE \E n \in 1 .. MaxSubTasks : DispatchAborted(n)
  <2>1. \E c \in Costs : phase = "asking" /\ tokens' = tokens + c /\ asked' = asked + c
    BY <1>4 DEF DispatchAborted, Asks
  <2>2. /\ inner' = 0 /\ ticketStop' = TRUE
        /\ \/ round < MaxRounds /\ round' = round + 1 /\ phase' = phase
           \/ round = MaxRounds /\ phase' = "concluded" /\ round' = round
        /\ guardStop' = guardStop /\ guard' = guard /\ stall' = stall /\ dispatch' = dispatch
        /\ task' = task /\ batches' = batches
    BY <1>4 DEF DispatchAborted
  <2> QED BY <1>1, <2>1, <2>2, Constants
<1> QED BY <1>2, <1>3, <1>4

\* A batch is dispatched: it fits in the budget.
LEMMA DispatchDoes ==
    ASSUME TypesHold, NEW plan \in Plans, NEW n \in 1 .. MaxSubTasks, Dispatches(plan, n)
    PROVE  /\ phase = "asking" /\ phase' = "dispatched" /\ ~guardStop
           /\ \E c \in Costs : tokens' = tokens + c
           /\ tokens' + n * SubTaskTokens <= TicketTokens
           /\ asked' = 0
           /\ dispatch' \in BatchType /\ dispatch'.plan = plan /\ dispatch'.size = n
           /\ dispatch'.ended = 0 /\ dispatch'.exhausted = 0 /\ dispatch'.wrote = FALSE
           /\ round' = round /\ inner' = inner /\ ticketStop' = ticketStop /\ guardStop' = guardStop
           /\ guard' = guard /\ stall' = stall /\ task' = task /\ batches' = batches
<1>1. phase = "asking" /\ phase' = "dispatched" /\ asked' = 0 /\ ~guardStop
  BY DEF Dispatches, MayDispatch, Asks
<1>2. PICK c \in Costs : tokens' = tokens + c /\ Fits(tokens + c, n)
  BY DEF Dispatches, Asks
<1>3. tokens' + n * SubTaskTokens <= TicketTokens
  BY <1>2 DEF Fits
<1>4. dispatch' = [NoBatch EXCEPT !.plan = plan, !.size = n]
  BY DEF Dispatches
<1>5. /\ dispatch' \in BatchType /\ dispatch'.plan = plan /\ dispatch'.size = n
      /\ dispatch'.ended = 0 /\ dispatch'.exhausted = 0 /\ dispatch'.wrote = FALSE
  <2>1. dispatch' = [plan |-> plan, size |-> n, ended |-> 0, exhausted |-> 0, wrote |-> FALSE]
    BY <1>4 DEF NoBatch
  <2>2. n \in Nat
    BY Constants
  <2> QED BY <2>1, <2>2 DEF BatchType
<1>6. /\ round' = round /\ inner' = inner /\ ticketStop' = ticketStop /\ guardStop' = guardStop
      /\ guard' = guard /\ stall' = stall /\ task' = task /\ batches' = batches
  BY DEF Dispatches
<1> QED BY <1>1, <1>2, <1>3, <1>5, <1>6

\* A batch ends: the analysis is stalled, or goes on.
LEMMA EndDoes ==
    ASSUME TypesHold, BatchEnds
    PROVE  /\ phase = "dispatched" /\ dispatch.ended = dispatch.size /\ dispatch.size \in 1 .. MaxSubTasks
           /\ guard' = Guarded /\ guardStop' = (guardStop \/ GuardTrips(Guarded)) /\ stall' = Stalled
           /\ \/ phase' = "stalled" /\ round' = round /\ inner' = inner /\ ticketStop' = ticketStop
                 /\ (stall'.same >= 3 \/ (~stall'.wrote /\ stall'.completed >= 3))
              \/ /\ ~(stall'.same >= 3 \/ (~stall'.wrote /\ stall'.completed >= 3))
                 /\ inner' = 0 /\ ticketStop' \in BOOLEAN /\ round' \in 1 .. MaxRounds
                 /\ \/ phase' = "asking" /\ round' = round + 1
                    \/ phase' = "concluded" /\ round' = round
           /\ batches' = Append(batches, dispatch) /\ dispatch' = NoBatch
           /\ tokens' = tokens /\ task' = task /\ asked' = asked
<1>1. phase = "dispatched" /\ dispatch.ended = dispatch.size /\ dispatch.size \in 1 .. MaxSubTasks
  BY DEF BatchEnds, TypesHold
<1>2. guard' = Guarded /\ guardStop' = (guardStop \/ GuardTrips(Guarded)) /\ stall' = Stalled
  BY DEF BatchEnds
<1>3. CASE stall'.same >= 3 \/ (~stall'.wrote /\ stall'.completed >= 3)
  <2>1. phase' = "stalled" /\ UNCHANGED <<round, inner, ticketStop>>
    BY <1>3 DEF BatchEnds
  <2>2. batches' = Append(batches, dispatch) /\ dispatch' = NoBatch /\ UNCHANGED <<tokens, task, asked>>
    BY DEF BatchEnds
  <2> QED BY <1>1, <1>2, <1>3, <2>1, <2>2
<1>4. CASE ~(stall'.same >= 3 \/ (~stall'.wrote /\ stall'.completed >= 3))
  <2>1. NextRound(tokens)
    BY <1>4 DEF BatchEnds
  <2>2. batches' = Append(batches, dispatch) /\ dispatch' = NoBatch /\ UNCHANGED <<tokens, task, asked>>
    BY DEF BatchEnds
  <2> QED BY <1>1, <1>2, <1>4, <2>1, <2>2, NextRoundDoes
<1> QED BY <1>3, <1>4

\* The types are kept.
LEMMA TypesStep ==
    ASSUME TypesHold, [StrategistNext]_strategistVars
    PROVE  TypesHold'
<1>1. CASE Completes \/ Reads \/ \E n \in 1 .. MaxSubTasks : DispatchAborted(n)
  <2>1. PICK c \in Costs : tokens' = tokens + c /\ asked' = asked + c
    BY <1>1, AsksDoes
  <2>2. tokens' \in Nat /\ asked' \in Nat
    BY <2>1, Constants DEF TypesHold, StrategistTypeOK
  <2>3. /\ inner' \in 0 .. MaxInner /\ round' \in 1 .. MaxRounds /\ ticketStop' \in BOOLEAN
        /\ phase' \in {"asking", "concluded"}
        /\ phase' = "asking" => inner' < MaxInner
        /\ guardStop' = guardStop /\ guard' = guard /\ stall' = stall /\ dispatch' = dispatch
        /\ task' = task /\ batches' = batches
    BY <1>1, AsksDoes
  <2> QED BY <2>2, <2>3 DEF TypesHold, StrategistTypeOK, BatchType
<1>2. ASSUME NEW plan \in Plans, NEW n \in 1 .. MaxSubTasks, Dispatches(plan, n)
      PROVE  TypesHold'
  <2>1. tokens' \in Nat
    <3>1. PICK c \in Costs : tokens' = tokens + c
      BY <1>2, DispatchDoes
    <3> QED BY <3>1, Constants DEF TypesHold, StrategistTypeOK
  <2>2. /\ phase' = "dispatched" /\ asked' = 0
        /\ dispatch' \in BatchType /\ dispatch'.plan = plan /\ dispatch'.size = n
        /\ dispatch'.ended = 0 /\ dispatch'.exhausted = 0
        /\ round' = round /\ inner' = inner /\ ticketStop' = ticketStop /\ guardStop' = guardStop
        /\ guard' = guard /\ stall' = stall /\ task' = task /\ batches' = batches
    BY <1>2, DispatchDoes
  <2> QED BY <2>1, <2>2 DEF TypesHold, StrategistTypeOK
<1>3. CASE TaskTurns \/ TaskExhausted \/ TaskFails
  <2>1. UNCHANGED <<loopVars, guardStop, guard, stall, batches, asked>>
    BY <1>3, TaskDoes
  <2>2. /\ phase' = phase /\ round' = round /\ inner' = inner /\ ticketStop' = ticketStop
        /\ guardStop' = guardStop /\ guard' = guard /\ stall' = stall /\ batches' = batches /\ asked' = asked
    BY <2>1 DEF loopVars
  <2>3. /\ phase = "dispatched" /\ dispatch' \in BatchType /\ task' \in TaskType /\ tokens' \in Nat
        /\ dispatch'.plan = dispatch.plan /\ dispatch'.size = dispatch.size
        /\ dispatch'.exhausted <= dispatch'.ended /\ dispatch'.ended <= dispatch'.size
    BY <1>3, TaskDoes
  <2> QED BY <2>2, <2>3 DEF TypesHold, StrategistTypeOK, TaskType
<1>4. CASE BatchEnds
  <2>1. dispatch \in BatchType /\ guard \in [exhausted : Nat, total : Nat, bad : Nat] /\ guardStop \in BOOLEAN
        /\ stall \in [last : Plans \cup {"none"}, same : Nat, wrote : BOOLEAN, completed : Nat]
    BY DEF TypesHold, StrategistTypeOK
  <2>2. guard' \in [exhausted : Nat, total : Nat, bad : Nat]
    <3>1. guard' = Guarded
      BY <1>4, EndDoes
    <3> QED BY <2>1, <3>1 DEF Guarded, BatchType
  <2>3. stall' \in [last : Plans \cup {"none"}, same : Nat, wrote : BOOLEAN, completed : Nat]
    <3>1. stall' = Stalled
      BY <1>4, EndDoes
    <3>2. (stall.wrote \/ dispatch.wrote) \in BOOLEAN
      OBVIOUS
    <3> QED BY <2>1, <3>1, <3>2 DEF Stalled, BatchType
  <2>4. guardStop' \in BOOLEAN
    BY <1>4, EndDoes
  <2>5. batches' \in Seq(BatchType)
    <3>1. batches' = Append(batches, dispatch)
      BY <1>4, EndDoes
    <3>2. batches \in Seq(BatchType)
      BY DEF TypesHold, StrategistTypeOK
    <3> QED BY <2>1, <3>1, <3>2
  <2>6. dispatch' \in BatchType /\ dispatch'.exhausted <= dispatch'.ended /\ dispatch'.ended <= dispatch'.size
    <3>1. dispatch' = NoBatch
      BY <1>4, EndDoes
    <3> QED BY <3>1 DEF NoBatch, BatchType
  <2>7. /\ phase' \in {"asking", "stalled", "concluded"} /\ inner' \in 0 .. MaxInner /\ round' \in 1 .. MaxRounds
        /\ ticketStop' \in BOOLEAN /\ (phase' = "asking" => inner' < MaxInner)
    <3>1. inner \in 0 .. MaxInner /\ round \in 1 .. MaxRounds /\ ticketStop \in BOOLEAN
      BY DEF TypesHold, StrategistTypeOK
    <3>2. 0 \in 0 .. MaxInner /\ 0 < MaxInner
      BY Constants
    <3> QED BY <1>4, <3>1, <3>2, EndDoes
  <2>8. tokens' = tokens /\ task' = task /\ asked' = asked
    BY <1>4, EndDoes
  <2> QED BY <2>2, <2>3, <2>4, <2>5, <2>6, <2>7, <2>8 DEF TypesHold, StrategistTypeOK
<1>5. CASE UNCHANGED strategistVars
  <2>1. /\ phase' = phase /\ round' = round /\ inner' = inner /\ ticketStop' = ticketStop
        /\ guardStop' = guardStop /\ guard' = guard /\ stall' = stall /\ batches' = batches /\ asked' = asked
        /\ tokens' = tokens /\ task' = task /\ dispatch' = dispatch
    BY <1>5 DEF strategistVars, loopVars
  <2> QED BY <2>1 DEF TypesHold, StrategistTypeOK, BatchType
<1> QED BY <1>1, <1>2, <1>3, <1>4, <1>5 DEF StrategistNext

\* The variables of an orchestrated analysis keep their types (runOrchestratedV2).
THEOREM StrategistTypes == StrategistSpec => []StrategistTypeOK
<1>1. TypesHold => StrategistTypeOK
  BY DEF TypesHold
<1> QED BY <1>1, TypesInit, TypesStep, PTL DEF StrategistSpec

-----------------------------------------------------------------------------
(* The account *)

\* While a batch runs, what it may still cost, each sub-task its own budget, fits
\* in the ticket's, but for the last calls of those that are through.
AccountInv ==
    /\ asked <= tokens
    /\ task.tokens <= SubTaskTokens + Over
    /\ phase = "dispatched" =>
          /\ asked = 0
          /\ tokens + (dispatch.size - dispatch.ended) * SubTaskTokens <= TicketTokens + dispatch.ended * Over
    /\ AccountKept

\* The products that the account is made of.
LEMMA Products ==
    ASSUME NEW m \in Nat, NEW n \in Nat, NEW k \in Nat
    PROVE  /\ m * k \in Nat
           /\ (m + 1) * k = m * k + k
           /\ 0 * k = 0
           /\ m <= n => m * k <= n * k
<1>1. (m + 1) * k = m * k + k /\ 0 * k = 0 /\ m * k \in Nat
  OBVIOUS
<1>2. ASSUME m <= n PROVE m * k <= n * k
  <2>1. n - m \in Nat /\ n = m + (n - m)
    BY <1>2
  <2>2. PICK d \in Nat : n = m + d
    BY <2>1
  <2>3. n * k = m * k + d * k /\ d * k \in Nat /\ m * k \in Nat
    BY <2>2
  <2> QED BY <2>3
<1> QED BY <1>1, <1>2

\* A part of what is within a bound is within a larger one.
LEMMA Within == \A a, b, c, d \in Nat : a + b <= c /\ c <= d => a <= d
  OBVIOUS

\* At the start the account is empty.
LEMMA AccountInit == StrategistInit => AccountInv
<1> SUFFICES ASSUME StrategistInit PROVE AccountInv
  OBVIOUS
<1>1. phase = "asking" /\ tokens = 0 /\ asked = 0 /\ task.tokens = 0
  BY DEF StrategistInit, Fresh
<1>2. MaxSubTasks * Over \in Nat
  BY OverIs, Products, Constants
<1> QED BY <1>1, <1>2, OverIs, Constants DEF AccountInv, AccountKept, Over

\* Every step keeps the account.
LEMMA AccountStep ==
    ASSUME TypesHold, AccountInv, [StrategistNext]_strategistVars
    PROVE  AccountInv'
<1>1. /\ tokens \in Nat /\ asked \in Nat /\ dispatch \in BatchType /\ dispatch.ended <= dispatch.size
      /\ dispatch.size \in Nat /\ dispatch.ended \in Nat /\ task.tokens \in Nat
  BY DEF TypesHold, StrategistTypeOK, BatchType
<1>2. SubTaskTokens \in Nat /\ TicketTokens \in Nat /\ MaxSubTasks \in Nat /\ Over \in Nat /\ MaxSubTasks * Over \in Nat
  BY Constants, OverIs, Products
<1>0. PICK limit \in Nat : limit = TicketTokens + MaxSubTasks * Over
  BY <1>2
<1>3. tokens - asked <= limit
  BY <1>0 DEF AccountInv, AccountKept, Over
<1>4. AccountInv' <=>
          /\ asked' <= tokens'
          /\ task'.tokens <= SubTaskTokens + Over
          /\ phase' = "dispatched" =>
                /\ asked' = 0
                /\ tokens' + (dispatch'.size - dispatch'.ended) * SubTaskTokens <= TicketTokens + dispatch'.ended * Over
          /\ tokens' - asked' <= limit
  BY <1>0 DEF AccountInv, AccountKept, Over
<1>5. asked <= tokens /\ task.tokens <= SubTaskTokens + Over
  BY DEF AccountInv
<1>6. phase = "dispatched" =>
          /\ asked = 0
          /\ tokens + (dispatch.size - dispatch.ended) * SubTaskTokens <= TicketTokens + dispatch.ended * Over
          /\ dispatch.size \in 1 .. MaxSubTasks
  BY DEF AccountInv, TypesHold
<1>7. CASE Completes \/ Reads \/ \E n \in 1 .. MaxSubTasks : DispatchAborted(n)
  <2>1. PICK c \in Costs : tokens' = tokens + c /\ asked' = asked + c
    BY <1>7, AsksDoes
  <2>2. phase' # "dispatched" /\ task' = task
    BY <1>7, AsksDoes
  <2>3. c \in Nat
    BY Constants
  <2> QED BY <1>1, <1>2, <1>3, <1>4, <1>5, <2>1, <2>2, <2>3
<1>8. ASSUME NEW plan \in Plans, NEW n \in 1 .. MaxSubTasks, Dispatches(plan, n)
      PROVE  AccountInv'
  <2>1. PICK c \in Costs : tokens' = tokens + c
    BY <1>8, DispatchDoes
  <2>2. /\ tokens' + n * SubTaskTokens <= TicketTokens /\ asked' = 0 /\ task' = task
        /\ dispatch'.size = n /\ dispatch'.ended = 0
    BY <1>8, DispatchDoes
  <2>3. c \in Nat /\ n \in Nat /\ tokens' \in Nat
    BY <1>1, <2>1, Constants
  <2>4. n * SubTaskTokens \in Nat /\ 0 * Over = 0 /\ n - 0 = n
    BY <1>2, <2>3, Products
  <2>5. (dispatch'.size - dispatch'.ended) * SubTaskTokens = n * SubTaskTokens /\ dispatch'.ended * Over = 0
    BY <2>2, <2>4
  <2>6. PICK m \in Nat : m = n * SubTaskTokens
    BY <2>4
  <2>7. tokens' - asked' <= limit /\ asked' <= tokens'
    <3>1. tokens' + m <= TicketTokens
      BY <2>2, <2>6
    <3>2. TicketTokens <= limit
      BY <1>0, <1>2
    <3>3. tokens' <= limit
      <4>1. TicketTokens \in Nat /\ tokens' \in Nat /\ m \in Nat /\ limit \in Nat
        BY <1>0, <1>2, <2>3, <2>6
      <4> QED BY <3>1, <3>2, <4>1, Within
    <3>4. asked' = 0
      BY <2>2
    <3> QED BY <1>0, <2>3, <3>3, <3>4
  <2>8. tokens' + (dispatch'.size - dispatch'.ended) * SubTaskTokens <= TicketTokens + dispatch'.ended * Over
    <3>1. TicketTokens + 0 = TicketTokens
      BY <1>2
    <3> QED BY <2>2, <2>5, <3>1
  <2> QED BY <1>4, <1>5, <2>2, <2>7, <2>8
<1>9. CASE TaskTurns \/ TaskExhausted \/ TaskFails
  <2>1. phase = "dispatched" /\ dispatch.ended < dispatch.size
    BY <1>9, TaskDoes
  <2>2. phase' = phase /\ asked' = asked
    <3>1. UNCHANGED <<loopVars, guardStop, guard, stall, batches, asked>>
      BY <1>9, TaskDoes
    <3> QED BY <3>1 DEF loopVars
  <2>3. /\ task'.tokens <= SubTaskTokens + Over /\ tokens' \in Nat /\ tokens <= tokens'
        /\ dispatch'.size = dispatch.size
        /\ \/ dispatch'.ended = dispatch.ended + 1 /\ tokens' <= tokens + SubTaskTokens + Over
           \/ dispatch' = dispatch /\ tokens' = tokens
    BY <1>5, <1>9, TaskDoes
  <2>4. CASE dispatch' = dispatch /\ tokens' = tokens
    BY <1>3, <1>4, <1>5, <1>6, <2>1, <2>2, <2>3, <2>4
  <2>5. CASE dispatch'.ended = dispatch.ended + 1 /\ tokens' <= tokens + SubTaskTokens + Over
    <3>1. PICK left \in Nat : dispatch.size - dispatch.ended = left + 1
      <4>1. dispatch.size - dispatch.ended - 1 \in Nat
        BY <1>1, <2>1
      <4> QED BY <1>1, <4>1
    <3>2. dispatch'.size - dispatch'.ended = left
      BY <1>1, <2>3, <2>5, <3>1
    <3>3. (left + 1) * SubTaskTokens = left * SubTaskTokens + SubTaskTokens /\ left * SubTaskTokens \in Nat
      BY <1>2, Products
    <3>4. (dispatch.ended + 1) * Over = dispatch.ended * Over + Over /\ dispatch.ended * Over \in Nat
      BY <1>1, <1>2, Products
    <3>5. tokens + (left * SubTaskTokens + SubTaskTokens) <= TicketTokens + dispatch.ended * Over
      BY <1>6, <2>1, <3>1, <3>3
    <3>6. tokens' + left * SubTaskTokens <= TicketTokens + (dispatch.ended * Over + Over)
      BY <1>1, <1>2, <2>3, <2>5, <3>3, <3>4, <3>5
    <3>7. tokens' + (dispatch'.size - dispatch'.ended) * SubTaskTokens <= TicketTokens + dispatch'.ended * Over
      BY <2>5, <3>2, <3>4, <3>6
    <3>8. (dispatch.ended + 1) * Over <= MaxSubTasks * Over
      <4>1. dispatch.ended + 1 \in Nat /\ dispatch.ended + 1 <= MaxSubTasks
        BY <1>1, <1>2, <1>6, <2>1
      <4> QED BY <1>2, <4>1, Products
    <3>9. tokens' <= limit
      BY <1>0, <1>2, <2>3, <3>3, <3>4, <3>6, <3>8
    <3>10. asked' = 0
      BY <1>6, <2>1, <2>2
    <3>11. tokens' - asked' <= limit /\ asked' <= tokens'
      BY <1>0, <2>3, <3>9, <3>10
    <3> QED BY <1>4, <2>3, <3>7, <3>10, <3>11
  <2> QED BY <2>3, <2>4, <2>5
<1>10. CASE BatchEnds
  <2>1. phase' # "dispatched" /\ tokens' = tokens /\ asked' = asked /\ task' = task
    BY <1>10, EndDoes
  <2> QED BY <1>3, <1>4, <1>5, <2>1
<1>11. CASE UNCHANGED strategistVars
  <2>1. phase' = phase /\ tokens' = tokens /\ asked' = asked /\ task' = task /\ dispatch' = dispatch
    BY <1>11 DEF strategistVars, loopVars
  <2> QED BY <1>3, <1>4, <1>5, <1>6, <2>1
<1> QED BY <1>7, <1>8, <1>9, <1>10, <1>11 DEF StrategistNext

\* What the batches bring the ticket's account over its budget is at most the last
\* call of each sub-task of one batch, with any costs and budgets: AccountKept is an
\* invariant (evaluateTicketBudget, runSubTaskLoop).
THEOREM AccountIsKept == StrategistSpec => []AccountKept
<1>1. StrategistInit => TypesHold /\ AccountInv
  BY TypesInit, AccountInit
<1>2. TypesHold /\ AccountInv /\ [StrategistNext]_strategistVars => (TypesHold /\ AccountInv)'
  BY TypesStep, AccountStep
<1>3. TypesHold /\ AccountInv => AccountKept
  BY DEF AccountInv
<1> QED BY <1>1, <1>2, <1>3, PTL DEF StrategistSpec

-----------------------------------------------------------------------------
(* The sums over the batches *)

\* f is the sum of b up to n.
SumTo(f, b, n) ==
    f = [k \in 0 .. n |->
            IF k = 0 THEN [exhausted |-> 0, size |-> 0]
            ELSE [exhausted |-> f[k - 1].exhausted + b[k].exhausted, size |-> f[k - 1].size + b[k].size]]

\* A set of naturals that is not empty has a least element.
LEMMA LeastExists ==
    ASSUME NEW S, S \subseteq Nat, S # {}
    PROVE  \E n \in S : \A m \in S : n <= m
<1>1. PICK n \in S : \A m \in S : ~ (<<m, n>> \in OpToRel(<, Nat))
  BY NatLessThanWellFounded, WFMin
<1>2. \A m \in S : n <= m
  <2> TAKE m \in S
  <2>1. ~ (<<m, n>> \in OpToRel(<, Nat))
    BY <1>1
  <2>2. m \in Nat /\ n \in Nat
    OBVIOUS
  <2> QED BY <2>1, <2>2 DEF OpToRel
<1> QED BY <1>2

\* There is a sum of any sequence, up to any number.
LEMMA SumExists ==
    ASSUME NEW b, NEW n \in Nat
    PROVE  \E f : SumTo(f, b, n)
<1> DEFINE T == {m \in Nat : ~ \E f : SumTo(f, b, m)}
<1>1. SUFFICES ASSUME T # {} PROVE FALSE
  OBVIOUS
<1>2. PICK m \in T : \A k \in T : m <= k
  <2>1. T \subseteq Nat
    OBVIOUS
  <2> HIDE DEF T
  <2> QED BY <1>1, <2>1, LeastExists
<1>3. m \in Nat /\ ~ \E f : SumTo(f, b, m)
  OBVIOUS
<1>4. CASE m = 0
  <2> DEFINE g == [k \in 0 .. m |-> [exhausted |-> 0, size |-> 0]]
  <2>1. \A k \in 0 .. m : k = 0
    BY <1>4
  <2>2. SumTo(g, b, m)
    BY <2>1 DEF SumTo
  <2> QED BY <1>3, <2>2
<1>5. CASE m > 0
  <2>1. m - 1 \in Nat /\ ~ (m <= m - 1)
    BY <1>3, <1>5
  <2>2. m - 1 \notin T
    BY <1>2, <2>1
  <2>3. PICK f : SumTo(f, b, m - 1)
    BY <2>1, <2>2
  <2> DEFINE last == [exhausted |-> f[m - 1].exhausted + b[m].exhausted, size |-> f[m - 1].size + b[m].size]
             g == [k \in 0 .. m |-> IF k = m THEN last ELSE f[k]]
             next(k) == IF k = 0 THEN [exhausted |-> 0, size |-> 0]
                        ELSE [exhausted |-> g[k - 1].exhausted + b[k].exhausted, size |-> g[k - 1].size + b[k].size]
  <2>4. \A k \in 0 .. m - 1 : g[k] = f[k]
    BY <1>3
  <2>5. \A k \in 0 .. m : g[k] = next(k)
    <3> TAKE k \in 0 .. m
    <3>1. CASE k = m
      <4>1. g[k] = last /\ k # 0
        BY <1>3, <1>5, <3>1
      <4>2. g[m - 1] = f[m - 1]
        BY <1>3, <1>5, <2>4
      <4> HIDE DEF g
      <4> QED BY <3>1, <4>1, <4>2
    <3>2. CASE k # m
      <4>1. k \in 0 .. m - 1
        BY <1>3, <3>2
      <4>2. f[k] = IF k = 0 THEN [exhausted |-> 0, size |-> 0]
                   ELSE [exhausted |-> f[k - 1].exhausted + b[k].exhausted, size |-> f[k - 1].size + b[k].size]
        BY <2>3, <4>1 DEF SumTo
      <4>3. k # 0 => k - 1 \in 0 .. m - 1
        BY <1>3, <4>1
      <4>4. k # 0 => g[k - 1] = f[k - 1]
        BY <2>4, <4>3
      <4>5. g[k] = f[k]
        BY <2>4, <4>1
      <4> HIDE DEF g
      <4> QED BY <4>2, <4>4, <4>5
    <3> QED BY <3>1, <3>2
  <2>6. g = [k \in 0 .. m |-> g[k]]
    OBVIOUS
  <2>7. g = [k \in 0 .. m |-> next(k)]
    <3> HIDE DEF g, next
    <3> QED BY <2>5, <2>6
  <2>8. SumTo(g, b, m)
    <3>1. g = [k \in 0 .. m |->
            IF k = 0 THEN [exhausted |-> 0, size |-> 0]
            ELSE [exhausted |-> g[k - 1].exhausted + b[k].exhausted, size |-> g[k - 1].size + b[k].size]]
      <4> HIDE DEF g
      <4> QED BY <2>7
    <3> HIDE DEF g
    <3> QED BY <3>1 DEF SumTo
  <2> HIDE DEF g
  <2> QED BY <1>3, <2>8
<1> QED BY <1>3, <1>4, <1>5

\* Sum is one.
LEMMA SumIs == SumTo(Sum, batches, MaxRounds)
<1>1. \E f : SumTo(f, batches, MaxRounds)
  BY SumExists, Constants
<1>2. Sum = CHOOSE f : SumTo(f, batches, MaxRounds)
  BY DEF Sum, SumTo
<1> QED BY <1>1, <1>2

\* The same in the next state.
LEMMA SumIsPrimed == SumTo(Sum', batches', MaxRounds)
<1>1. \E f : SumTo(f, batches', MaxRounds)
  BY SumExists, Constants
<1>2. Sum' = CHOOSE f : SumTo(f, batches', MaxRounds)
  BY DEF Sum, SumTo
<1> QED BY <1>1, <1>2

\* The sum of one batch more.
LEMMA SumSteps ==
    ASSUME NEW f, NEW b, SumTo(f, b, MaxRounds)
    PROVE  /\ f[0].exhausted = 0 /\ f[0].size = 0
           /\ \A k \in 1 .. MaxRounds :
                 /\ f[k].exhausted = f[k - 1].exhausted + b[k].exhausted
                 /\ f[k].size = f[k - 1].size + b[k].size
<1> DEFINE next(k) == IF k = 0 THEN [exhausted |-> 0, size |-> 0]
                      ELSE [exhausted |-> f[k - 1].exhausted + b[k].exhausted, size |-> f[k - 1].size + b[k].size]
<1>1. f = [k \in 0 .. MaxRounds |-> next(k)]
  BY DEF SumTo
<1>2. \A k \in 0 .. MaxRounds : f[k] = next(k)
  <2> HIDE DEF next
  <2> QED BY <1>1
<1>3. 0 \in 0 .. MaxRounds /\ \A k \in 1 .. MaxRounds : k \in 0 .. MaxRounds /\ k # 0
  BY Constants
<1>4. f[0] = [exhausted |-> 0, size |-> 0]
  BY <1>2, <1>3
<1>5. ASSUME NEW k \in 1 .. MaxRounds
      PROVE  f[k] = [exhausted |-> f[k - 1].exhausted + b[k].exhausted, size |-> f[k - 1].size + b[k].size]
  <2>1. k \in 0 .. MaxRounds /\ k # 0
    BY <1>3
  <2>2. f[k] = next(k)
    <3> HIDE DEF next
    <3> QED BY <1>2, <2>1
  <2> QED BY <2>1, <2>2
<1> QED
  <2>1. f[0].exhausted = 0 /\ f[0].size = 0
    BY <1>4
  <2>2. ASSUME NEW k \in 1 .. MaxRounds
        PROVE  /\ f[k].exhausted = f[k - 1].exhausted + b[k].exhausted
               /\ f[k].size = f[k - 1].size + b[k].size
    <3>1. PICK x, y : x = f[k - 1].exhausted + b[k].exhausted /\ y = f[k - 1].size + b[k].size
      OBVIOUS
    <3>2. f[k] = [exhausted |-> x, size |-> y]
      BY <1>5, <3>1
    <3> QED BY <3>1, <3>2
  <2> HIDE DEF next
  <2> QED BY <2>1, <2>2

\* Sequences that agree up to n have the same sums up to n.
LEMMA SumPrefix ==
    ASSUME NEW f, NEW b, NEW g, NEW c, SumTo(f, b, MaxRounds), SumTo(g, c, MaxRounds),
           NEW n \in 0 .. MaxRounds, \A k \in 1 .. n : b[k] = c[k]
    PROVE  \A k \in 0 .. n : f[k].exhausted = g[k].exhausted /\ f[k].size = g[k].size
<1> DEFINE same(k) == f[k].exhausted = g[k].exhausted /\ f[k].size = g[k].size
           T == {k \in 0 .. n : ~ same(k)}
<1>1. SUFFICES ASSUME T # {} PROVE FALSE
  OBVIOUS
<1>2. PICK m \in T : \A k \in T : m <= k
  <2>1. T \subseteq Nat
    OBVIOUS
  <2> HIDE DEF T
  <2> QED BY <1>1, <2>1, LeastExists
<1>3. m \in 0 .. n /\ ~ same(m)
  OBVIOUS
<1>4. n \in Nat /\ n <= MaxRounds /\ MaxRounds \in Nat
  BY Constants
<1>5. m # 0
  <2>1. same(0)
    BY SumSteps
  <2> HIDE DEF same
  <2> QED BY <1>3, <2>1
<1>6. m - 1 \in 0 .. n /\ ~ (m <= m - 1) /\ m \in 1 .. n /\ m \in 1 .. MaxRounds
  BY <1>3, <1>4, <1>5
<1>7. same(m - 1)
  <2>1. m - 1 \notin T
    BY <1>2, <1>6
  <2> HIDE DEF same
  <2> QED BY <1>6, <2>1
<1>8. b[m] = c[m]
  BY <1>6
<1>9. /\ f[m].exhausted = f[m - 1].exhausted + b[m].exhausted /\ f[m].size = f[m - 1].size + b[m].size
      /\ g[m].exhausted = g[m - 1].exhausted + c[m].exhausted /\ g[m].size = g[m - 1].size + c[m].size
  BY <1>6, SumSteps
<1> HIDE DEF T
<1> QED BY <1>3, <1>7, <1>8, <1>9

-----------------------------------------------------------------------------
(* Batches *)

\* Every batch takes a round of the strategist.
CountInv ==
    /\ Len(batches) <= round
    /\ phase \in {"asking", "dispatched"} => Len(batches) < round

\* The guard knows the sums over the batches and how bad the last two were; the
\* dispatch of more is stopped if the sub-tasks were failing after one of them.
GuardKnows(n) ==
    /\ guard.exhausted = Sum[n].exhausted /\ guard.total = Sum[n].size
    /\ n >= 1 => guard.total > 0
    /\ guard.bad >= 1 <=> n >= 1 /\ Bad(n)
    /\ guard.bad >= 2 <=> n >= 2 /\ Bad(n) /\ Bad(n - 1)
    /\ \A k \in 1 .. n : Failing(k) => guardStop
    /\ \A k \in 1 .. n - 1 : ~Failing(k)

\* The stall detection knows the number of batches, whether any wrote, and for how
\* many of the last three the plan was the same.
StallKnows(n) ==
    /\ stall.completed = n
    /\ stall.wrote <=> \E k \in 1 .. n : batches[k].wrote
    /\ n >= 1 => stall.last = batches[n].plan
    /\ stall.same >= 1 <=> n >= 1
    /\ stall.same >= 2 <=> n >= 2 /\ batches[n].plan = batches[n - 1].plan
    /\ stall.same >= 3 <=> n >= 3 /\ batches[n].plan = batches[n - 1].plan /\ batches[n].plan = batches[n - 2].plan
    /\ \A k \in 1 .. n - 1 : ~Stuck(k)

\* The invariant: a batch is under way, or may be, only if nothing speaks against it.
BatchesInv ==
    /\ CountInv
    /\ GuardKnows(Len(batches)) /\ StallKnows(Len(batches))
    /\ phase = "dispatched" => ~guardStop
    /\ phase \in {"asking", "dispatched"} => ~Stuck(Len(batches))
    /\ phase = "stalled" => Stuck(Len(batches))

\* At the end of a batch it is added to those before it.
LEMMA EndAppends ==
    ASSUME TypesHold, BatchEnds, NEW n, n = Len(batches)
    PROVE  /\ n \in Nat /\ Len(batches') = n + 1
           /\ \A k \in 1 .. n : batches'[k] = batches[k] /\ batches[k] \in BatchType
           /\ batches'[n + 1] = dispatch
<1>1. batches \in Seq(BatchType) /\ dispatch \in BatchType /\ batches' = Append(batches, dispatch)
  BY EndDoes DEF TypesHold, StrategistTypeOK
<1> QED BY <1>1

\* Steps other than the end of a batch leave the guards as they are.
LEMMA OthersKeep ==
    ASSUME TypesHold, [StrategistNext]_strategistVars, ~BatchEnds
    PROVE  /\ guardStop' = guardStop /\ guard' = guard /\ stall' = stall /\ batches' = batches
           /\ phase' \in {"asking", "dispatched"} => phase \in {"asking", "dispatched"}
           /\ phase' = "dispatched" => phase = "dispatched" \/ ~guardStop
           /\ phase' = "stalled" => phase = "stalled"
           /\ round <= round'
<1>1. round \in Nat
  BY Constants DEF TypesHold, StrategistTypeOK
<1>2. CASE Completes \/ Reads \/ \E n \in 1 .. MaxSubTasks : DispatchAborted(n)
  <2>1. /\ phase = "asking" /\ phase' \in {"asking", "concluded"} /\ round <= round'
        /\ guardStop' = guardStop /\ guard' = guard /\ stall' = stall /\ batches' = batches
    BY <1>2, AsksDoes
  <2> QED BY <2>1
<1>3. ASSUME NEW plan \in Plans, NEW n \in 1 .. MaxSubTasks, Dispatches(plan, n)
      PROVE  /\ phase = "asking" /\ phase' = "dispatched" /\ ~guardStop /\ round' = round
             /\ guardStop' = guardStop /\ guard' = guard /\ stall' = stall /\ batches' = batches
  BY <1>3, DispatchDoes
<1>4. CASE \E plan \in Plans, n \in 1 .. MaxSubTasks : Dispatches(plan, n)
  BY <1>1, <1>3, <1>4
<1>5. CASE TaskTurns \/ TaskExhausted \/ TaskFails
  <2>1. UNCHANGED <<loopVars, guardStop, guard, stall, batches, asked>>
    BY <1>5, TaskDoes
  <2> QED BY <1>1, <2>1 DEF loopVars
<1>6. CASE UNCHANGED strategistVars
  BY <1>1, <1>6 DEF strategistVars, loopVars
<1> QED BY <1>2, <1>4, <1>5, <1>6 DEF StrategistNext

\* What the guards say of batches that are over does not change at the end of one.
LEMMA PastKept ==
    ASSUME TypesHold, CountInv, BatchEnds, NEW n, n = Len(batches)
    PROVE  /\ n \in Nat /\ n + 1 \in 1 .. MaxRounds
           /\ Sum'[n + 1].exhausted = Sum[n].exhausted + dispatch.exhausted
           /\ Sum'[n + 1].size = Sum[n].size + dispatch.size
           /\ \A k \in 1 .. n : (Bad(k)' <=> Bad(k)) /\ (Failing(k)' <=> Failing(k)) /\ (Stuck(k)' <=> Stuck(k))
<1>1. /\ n \in Nat /\ Len(batches') = n + 1
      /\ \A k \in 1 .. n : batches'[k] = batches[k]
      /\ batches'[n + 1] = dispatch
  BY EndAppends
<1>2. n + 1 \in 1 .. MaxRounds /\ n \in 0 .. MaxRounds
  <2>1. phase = "dispatched"
    BY EndDoes
  <2>2. n < round /\ round \in 1 .. MaxRounds
    BY <2>1 DEF CountInv, TypesHold, StrategistTypeOK
  <2> QED BY <1>1, <2>2, Constants
<1>3. \A k \in 0 .. n : Sum'[k].exhausted = Sum[k].exhausted /\ Sum'[k].size = Sum[k].size
  BY <1>1, <1>2, SumPrefix, SumIs, SumIsPrimed
<1>4. /\ Sum'[n + 1].exhausted = Sum[n].exhausted + dispatch.exhausted
      /\ Sum'[n + 1].size = Sum[n].size + dispatch.size
  <2>1. /\ Sum'[n + 1].exhausted = Sum'[n + 1 - 1].exhausted + batches'[n + 1].exhausted
        /\ Sum'[n + 1].size = Sum'[n + 1 - 1].size + batches'[n + 1].size
    BY <1>2, SumSteps, SumIsPrimed
  <2>2. n + 1 - 1 = n /\ n \in 0 .. n
    BY <1>1
  <2> QED BY <1>1, <1>3, <2>1, <2>2
<1>5. ASSUME NEW k \in 1 .. n
      PROVE  (Bad(k)' <=> Bad(k)) /\ (Failing(k)' <=> Failing(k)) /\ (Stuck(k)' <=> Stuck(k))
  <2>1. batches'[k] = batches[k] /\ k \in 0 .. n
    BY <1>1
  <2>2. Bad(k)' <=> Bad(k)
    BY <2>1 DEF Bad
  <2>3. Failing(k)' <=> Failing(k)
    <3>1. CASE k >= 2
      <4>1. k - 1 \in 1 .. n
        BY <1>1, <3>1
      <4>2. batches'[k - 1] = batches[k - 1]
        BY <1>1, <4>1
      <4>3. Sum'[k].exhausted = Sum[k].exhausted /\ Sum'[k].size = Sum[k].size
        BY <1>3, <2>1
      <4> QED BY <2>1, <4>2, <4>3 DEF Failing, Bad
    <3>2. CASE ~(k >= 2)
      BY <3>2 DEF Failing
    <3> QED BY <3>1, <3>2
  <2>4. Stuck(k)' <=> Stuck(k)
    <3>1. CASE k >= 3
      <4>1. k - 1 \in 1 .. n /\ k - 2 \in 1 .. n
        BY <1>1, <3>1
      <4>2. batches'[k - 1] = batches[k - 1] /\ batches'[k - 2] = batches[k - 2]
        BY <1>1, <4>1
      <4>3. \A j \in 1 .. k : batches'[j] = batches[j]
        BY <1>1
      <4>4. (\A j \in 1 .. k : ~batches'[j].wrote) <=> (\A j \in 1 .. k : ~batches[j].wrote)
        BY <4>3
      <4> QED BY <2>1, <4>2, <4>4 DEF Stuck
    <3>2. CASE ~(k >= 3)
      BY <3>2 DEF Stuck
    <3> QED BY <3>1, <3>2
  <2> QED BY <2>2, <2>3, <2>4
<1> QED BY <1>1, <1>2, <1>4, <1>5

\* At the end of a batch the guard takes it in.
LEMMA GuardStep ==
    ASSUME TypesHold, CountInv, BatchEnds, NEW n, n = Len(batches), GuardKnows(n), ~guardStop
    PROVE  GuardKnows(n + 1)'
<1>1. /\ n \in Nat /\ batches'[n + 1] = dispatch
      /\ \A k \in 1 .. n : batches'[k] = batches[k]
  BY EndAppends
<1>2. /\ Sum'[n + 1].exhausted = Sum[n].exhausted + dispatch.exhausted
      /\ Sum'[n + 1].size = Sum[n].size + dispatch.size
      /\ \A k \in 1 .. n : (Bad(k)' <=> Bad(k)) /\ (Failing(k)' <=> Failing(k))
  BY PastKept
<1>3. guard.exhausted \in Nat /\ guard.total \in Nat /\ guard.bad \in Nat /\ dispatch.exhausted \in Nat
      /\ dispatch.size \in Nat
  BY DEF TypesHold, StrategistTypeOK, BatchType
<1>4. dispatch.size > 0 /\ guard' = Guarded /\ guardStop' = (guardStop \/ GuardTrips(Guarded))
  BY EndDoes, Constants
<1>5. /\ guard.exhausted = Sum[n].exhausted /\ guard.total = Sum[n].size
      /\ n >= 1 => guard.total > 0
      /\ guard.bad >= 1 <=> n >= 1 /\ Bad(n)
      /\ \A k \in 1 .. n : Failing(k) => guardStop
  BY DEF GuardKnows
<1>6. /\ guard'.exhausted = guard.exhausted + dispatch.exhausted
      /\ guard'.total = guard.total + dispatch.size
      /\ guard'.bad = IF dispatch.exhausted * 100 >= ConsecutiveStop * dispatch.size THEN guard.bad + 1 ELSE 0
  BY <1>4 DEF Guarded
<1>7. guard'.exhausted = Sum'[n + 1].exhausted /\ guard'.total = Sum'[n + 1].size
  BY <1>2, <1>5, <1>6
<1>16. guard'.total > 0
  BY <1>3, <1>4, <1>6
<1>8. Bad(n + 1)' <=> dispatch.exhausted * 100 >= ConsecutiveStop * dispatch.size
  BY <1>1 DEF Bad
<1>9. guard'.bad = IF Bad(n + 1)' THEN guard.bad + 1 ELSE 0
  BY <1>6, <1>8
<1>10. n + 1 - 1 = n /\ n + 1 >= 1 /\ (n >= 1 => n \in 1 .. n)
  BY <1>1
<1>11. guard'.bad >= 1 <=> n + 1 >= 1 /\ Bad(n + 1)'
  BY <1>3, <1>9, <1>10
<1>12. guard'.bad >= 2 <=> n + 1 >= 2 /\ Bad(n + 1)' /\ Bad(n)'
  <2>1. guard'.bad >= 2 <=> Bad(n + 1)' /\ guard.bad >= 1
    BY <1>3, <1>9
  <2>2. n >= 1 => (Bad(n)' <=> Bad(n))
    BY <1>2, <1>10
  <2>3. n + 1 >= 2 <=> n >= 1
    BY <1>1
  <2> QED BY <1>5, <2>1, <2>2, <2>3
<1>13. Failing(n + 1)' => guardStop'
  <2> SUFFICES ASSUME Failing(n + 1)' PROVE guardStop'
    OBVIOUS
  <2>1. n + 1 >= 2 => guard.total > 0
    BY <1>1, <1>5
  <2>2. guardStop' <=> guardStop \/ (guard.total > 0 /\ (guard'.exhausted * 100 > CumulativeStop * guard'.total \/ guard'.bad >= 2))
    BY <1>4 DEF GuardTrips
  <2>3. n + 1 >= 2 /\ (\/ Sum'[n + 1].exhausted * 100 > CumulativeStop * Sum'[n + 1].size
                       \/ Bad(n + 1)' /\ Bad(n + 1 - 1)')
    BY DEF Failing
  <2>4. Bad(n + 1 - 1)' <=> Bad(n)'
    BY <1>10
  <2>5. CASE Sum'[n + 1].exhausted * 100 > CumulativeStop * Sum'[n + 1].size
    BY <1>7, <2>1, <2>2, <2>3, <2>5
  <2>6. CASE Bad(n + 1)' /\ Bad(n)'
    BY <1>12, <2>1, <2>2, <2>3, <2>6
  <2> QED BY <2>3, <2>4, <2>5, <2>6
<1>14. \A k \in 1 .. n + 1 : Failing(k)' => guardStop'
  <2> TAKE k \in 1 .. n + 1
  <2>1. CASE k = n + 1
    BY <1>13, <2>1
  <2>2. CASE k # n + 1
    <3>1. k \in 1 .. n
      BY <1>1, <2>2
    <3> QED BY <1>2, <1>5, <3>1
  <2> QED BY <2>1, <2>2
<1>15. \A k \in 1 .. n + 1 - 1 : ~Failing(k)'
  BY <1>2, <1>5, <1>10
<1> QED BY <1>7, <1>10, <1>11, <1>12, <1>14, <1>15, <1>16 DEF GuardKnows

\* At the end of a batch the stall detection takes it in, and says whether the
\* analysis is stuck.
LEMMA StallStep ==
    ASSUME TypesHold, CountInv, BatchEnds, NEW n, n = Len(batches), StallKnows(n), ~Stuck(n)
    PROVE  /\ StallKnows(n + 1)'
           /\ Stuck(n + 1)' <=> stall'.same >= 3 \/ (~stall'.wrote /\ stall'.completed >= 3)
<1>1. /\ n \in Nat /\ batches'[n + 1] = dispatch
      /\ \A k \in 1 .. n : batches'[k] = batches[k]
  BY EndAppends
<1>2. \A k \in 1 .. n : Stuck(k)' <=> Stuck(k)
  BY PastKept
<1>3. stall.same \in Nat
  BY DEF TypesHold, StrategistTypeOK
<1>4. stall' = Stalled
  BY EndDoes
<1>5. /\ stall'.last = dispatch.plan
      /\ stall'.same = IF dispatch.plan = stall.last THEN stall.same + 1 ELSE 1
      /\ stall'.wrote = (stall.wrote \/ dispatch.wrote)
      /\ stall'.completed = stall.completed + 1
  BY <1>4 DEF Stalled
<1>6. /\ stall.completed = n
      /\ stall.wrote <=> \E k \in 1 .. n : batches[k].wrote
      /\ n >= 1 => stall.last = batches[n].plan
      /\ stall.same >= 1 <=> n >= 1
      /\ stall.same >= 2 <=> n >= 2 /\ batches[n].plan = batches[n - 1].plan
      /\ \A k \in 1 .. n - 1 : ~Stuck(k)
  BY DEF StallKnows
<1>7. /\ n >= 1 => batches'[n] = batches[n]
      /\ n >= 2 => batches'[n - 1] = batches[n - 1]
      /\ n + 1 - 1 = n /\ n + 1 - 2 = n - 1 /\ n + 1 >= 1
      /\ n + 1 >= 2 <=> n >= 1
      /\ n + 1 >= 3 <=> n >= 2
  <2>1. (n >= 1 => n \in 1 .. n) /\ (n >= 2 => n - 1 \in 1 .. n)
    BY <1>1
  <2>2. /\ n + 1 - 1 = n /\ n + 1 - 2 = n - 1 /\ n + 1 >= 1
        /\ n + 1 >= 2 <=> n >= 1
        /\ n + 1 >= 3 <=> n >= 2
    BY <1>1
  <2> QED BY <1>1, <2>1, <2>2
<1>8. stall'.wrote <=> \E k \in 1 .. n + 1 : batches'[k].wrote
  <2>1. stall'.wrote <=> (\E k \in 1 .. n : batches[k].wrote) \/ dispatch.wrote
    BY <1>5, <1>6
  <2>2. \A k : k \in 1 .. n + 1 <=> k \in 1 .. n \/ k = n + 1
    BY <1>1
  <2> QED BY <1>1, <2>1, <2>2
<1>9. n >= 1 => (dispatch.plan = stall.last <=> batches'[n + 1].plan = batches'[n].plan)
  BY <1>1, <1>6, <1>7
<1>10. stall'.same >= 1
  BY <1>3, <1>5
<1>11. stall'.same >= 2 <=> n >= 1 /\ batches'[n + 1].plan = batches'[n].plan
  <2>1. stall'.same >= 2 <=> dispatch.plan = stall.last /\ stall.same >= 1
    BY <1>3, <1>5
  <2> QED BY <1>6, <1>9, <2>1
<1>12. stall'.same >= 3 <=> n >= 2 /\ batches'[n + 1].plan = batches'[n].plan /\ batches'[n + 1].plan = batches'[n - 1].plan
  <2>1. stall'.same >= 3 <=> dispatch.plan = stall.last /\ stall.same >= 2
    BY <1>3, <1>5
  <2>2. n >= 2 => n >= 1
    BY <1>1
  <2>3. n >= 2 => batches'[n] = batches[n] /\ batches'[n - 1] = batches[n - 1]
    BY <1>7, <2>2
  <2> QED BY <1>6, <1>9, <2>1, <2>2, <2>3
<1>13. \A k \in 1 .. n + 1 - 1 : ~Stuck(k)'
  <2> TAKE k \in 1 .. n + 1 - 1
  <2>1. k \in 1 .. n /\ (k = n \/ k \in 1 .. n - 1)
    BY <1>1
  <2>2. ~Stuck(k)
    BY <1>6, <2>1
  <2> QED BY <1>2, <2>1, <2>2
<1>14. StallKnows(n + 1)'
  <2>1. /\ stall'.completed = n + 1
        /\ n + 1 >= 1 => stall'.last = batches'[n + 1].plan
        /\ stall'.same >= 1 <=> n + 1 >= 1
    BY <1>1, <1>5, <1>6, <1>7, <1>10
  <2>2. /\ stall'.same >= 2 <=> n + 1 >= 2 /\ batches'[n + 1].plan = batches'[n + 1 - 1].plan
        /\ stall'.same >= 3 <=> n + 1 >= 3 /\ batches'[n + 1].plan = batches'[n + 1 - 1].plan
                                /\ batches'[n + 1].plan = batches'[n + 1 - 2].plan
    BY <1>7, <1>11, <1>12
  <2> QED BY <1>8, <1>13, <2>1, <2>2 DEF StallKnows
<1>15. Stuck(n + 1)' <=> stall'.same >= 3 \/ (~stall'.wrote /\ stall'.completed >= 3)
  <2>1. Stuck(n + 1)' <=> n + 1 >= 3 /\ \/ /\ batches'[n + 1].plan = batches'[n + 1 - 1].plan
                                           /\ batches'[n + 1].plan = batches'[n + 1 - 2].plan
                                        \/ \A j \in 1 .. n + 1 : ~batches'[j].wrote
    BY DEF Stuck
  <2>2. stall'.completed >= 3 <=> n >= 2
    BY <1>5, <1>6, <1>7
  <2>3. ~stall'.wrote <=> \A j \in 1 .. n + 1 : ~batches'[j].wrote
    BY <1>8
  <2> QED BY <1>7, <1>12, <2>1, <2>2, <2>3
<1> QED BY <1>14, <1>15

\* At the start nothing is known.
LEMMA BatchesInit == StrategistInit => BatchesInv
<1> SUFFICES ASSUME StrategistInit PROVE BatchesInv
  OBVIOUS
<1>1. phase = "asking" /\ round = 1 /\ Len(batches) = 0 /\ guardStop = FALSE
  BY DEF StrategistInit
<1>2. guard = [exhausted |-> 0, total |-> 0, bad |-> 0] /\ stall = [last |-> "none", same |-> 0, wrote |-> FALSE, completed |-> 0]
  BY DEF StrategistInit
<1>3. Sum[0].exhausted = 0 /\ Sum[0].size = 0
  BY SumIs, SumSteps
<1>4. CountInv
  BY <1>1 DEF CountInv
<1>5. GuardKnows(0)
  BY <1>2, <1>3 DEF GuardKnows
<1>6. StallKnows(0)
  BY <1>2 DEF StallKnows
<1>7. ~Stuck(0)
  BY DEF Stuck
<1> QED BY <1>1, <1>4, <1>5, <1>6, <1>7 DEF BatchesInv

\* Nothing that the guards know changes while no batch ends.
LEMMA KnowledgeKept ==
    ASSUME guardStop' = guardStop, guard' = guard, stall' = stall, batches' = batches, NEW n
    PROVE  /\ GuardKnows(n) => GuardKnows(n)'
           /\ StallKnows(n) => StallKnows(n)'
           /\ Stuck(n)' <=> Stuck(n)
<1>1. Sum' = Sum
  BY DEF Sum
<1>2. ASSUME NEW k PROVE Stuck(k)' <=> Stuck(k)
  BY DEF Stuck
<1>3. ASSUME NEW k PROVE (Failing(k)' <=> Failing(k)) /\ (Bad(k)' <=> Bad(k))
  BY <1>1 DEF Failing, Bad
<1>4. GuardKnows(n) => GuardKnows(n)'
  BY <1>1, <1>3 DEF GuardKnows
<1>5. StallKnows(n) => StallKnows(n)'
  BY <1>2 DEF StallKnows
<1> QED BY <1>2, <1>4, <1>5

\* Every step keeps what the guards know.
LEMMA BatchesStep ==
    ASSUME TypesHold, BatchesInv, [StrategistNext]_strategistVars
    PROVE  BatchesInv'
<1>1. PICK n \in Nat : n = Len(batches)
  BY DEF TypesHold, StrategistTypeOK
<1>2. /\ CountInv /\ GuardKnows(n) /\ StallKnows(n)
      /\ phase = "dispatched" => ~guardStop
      /\ phase \in {"asking", "dispatched"} => ~Stuck(n)
      /\ phase = "stalled" => Stuck(n)
  BY <1>1 DEF BatchesInv
<1>3. round \in Nat
  BY Constants DEF TypesHold, StrategistTypeOK
<1>4. CASE ~BatchEnds
  <2>1. /\ guardStop' = guardStop /\ guard' = guard /\ stall' = stall /\ batches' = batches
        /\ phase' \in {"asking", "dispatched"} => phase \in {"asking", "dispatched"}
        /\ phase' = "dispatched" => phase = "dispatched" \/ ~guardStop
        /\ phase' = "stalled" => phase = "stalled"
        /\ round <= round'
    BY <1>4, OthersKeep
  <2>2. round' \in Nat
    <3>1. TypesHold'
      BY TypesStep
    <3>2. round' \in 1 .. MaxRounds
      BY <3>1 DEF TypesHold, StrategistTypeOK
    <3> QED BY <3>2, Constants
  <2>3. CountInv'
    <3>1. Len(batches') = n /\ Len(batches) = n
      BY <1>1, <2>1
    <3>2. n <= round /\ (phase \in {"asking", "dispatched"} => n < round)
      BY <1>2, <3>1 DEF CountInv
    <3>3. n <= round' /\ (phase' \in {"asking", "dispatched"} => n < round')
      BY <1>1, <1>3, <2>1, <2>2, <3>2
    <3> QED BY <3>1, <3>3 DEF CountInv
  <2>4. GuardKnows(n)' /\ StallKnows(n)' /\ (Stuck(n)' <=> Stuck(n))
    BY <1>2, <2>1, KnowledgeKept
  <2>5. Len(batches') = n
    BY <1>1, <2>1
  <2> QED BY <1>2, <2>1, <2>3, <2>4, <2>5 DEF BatchesInv
<1>5. CASE BatchEnds
  <2>1. phase = "dispatched"
    BY <1>5, EndDoes
  <2>2. GuardKnows(n + 1)' /\ StallKnows(n + 1)'
        /\ (Stuck(n + 1)' <=> stall'.same >= 3 \/ (~stall'.wrote /\ stall'.completed >= 3))
    BY <1>1, <1>2, <1>5, <2>1, GuardStep, StallStep
  <2>3. Len(batches') = n + 1
    BY <1>1, <1>5, EndAppends
  <2>4. \/ /\ phase' = "stalled" /\ round' = round
           /\ (stall'.same >= 3 \/ (~stall'.wrote /\ stall'.completed >= 3))
        \/ /\ ~(stall'.same >= 3 \/ (~stall'.wrote /\ stall'.completed >= 3))
           /\ \/ phase' = "asking" /\ round' = round + 1
              \/ phase' = "concluded" /\ round' = round
    BY <1>5, EndDoes
  <2>5. n < round
    BY <1>1, <1>2, <2>1 DEF CountInv
  <2>6. CountInv'
    BY <1>1, <1>3, <2>3, <2>4, <2>5 DEF CountInv
  <2> QED BY <2>2, <2>3, <2>4, <2>6 DEF BatchesInv
<1> QED BY <1>4, <1>5

\* A batch is started only if after none of those before it the sub-tasks were
\* failing or the analysis was stuck, and an analysis is ended as stalled only if it
\* was, with any plans, guards and rounds: BatchesWarranted is an invariant
\* (evaluateBatchFailureGuard, updateStallState).
THEOREM BatchesAreWarranted == StrategistSpec => []BatchesWarranted
<1>1. StrategistInit => TypesHold /\ BatchesInv
  BY TypesInit, BatchesInit
<1>2. TypesHold /\ BatchesInv /\ [StrategistNext]_strategistVars => (TypesHold /\ BatchesInv)'
  BY TypesStep, BatchesStep
<1>3. ASSUME TypesHold, BatchesInv PROVE BatchesWarranted
  <2>1. PICK n \in Nat : n = Len(batches)
    BY <1>3 DEF TypesHold, StrategistTypeOK
  <2>2. /\ \A k \in 1 .. n : Failing(k) => guardStop
        /\ \A k \in 1 .. n - 1 : ~Failing(k) /\ ~Stuck(k)
        /\ phase = "dispatched" => ~guardStop /\ ~Stuck(n)
        /\ phase = "stalled" => Stuck(n)
    BY <1>3, <2>1 DEF BatchesInv, GuardKnows, StallKnows
  <2>3. PICK started : started = n + (IF phase = "dispatched" THEN 1 ELSE 0)
    OBVIOUS
  <2>4. ASSUME NEW k \in 1 .. started - 1 PROVE ~Failing(k) /\ ~Stuck(k)
    <3>1. k \in 1 .. n - 1 \/ (phase = "dispatched" /\ k = n /\ k \in 1 .. n)
      BY <2>1, <2>3
    <3> QED BY <2>2, <3>1
  <2>5. started = Len(batches) + (IF phase = "dispatched" THEN 1 ELSE 0)
    BY <2>1, <2>3
  <2> QED BY <2>1, <2>2, <2>4, <2>5 DEF BatchesWarranted
<1> QED BY <1>1, <1>2, <1>3, PTL DEF StrategistSpec

-----------------------------------------------------------------------------
(***************************************************************************)
(* The components of MCServices together                                   *)
(***************************************************************************)

\* Whatever they do, each does what it does alone.
LEMMA EachServiceAlone == ServicesSpec => PoolSpec /\ RepoSpec /\ PendingSpec /\ StrategistSpec
<1>1. ServicesInit => PoolInit /\ RepoInit /\ PendingInit /\ StrategistInit
  BY DEF ServicesInit
<1>2. [ServicesNext]_serviceVars => [PoolNext]_poolVars
  BY DEF ServicesNext, serviceVars, PoolStep
<1>3. [ServicesNext]_serviceVars => [RepoNext]_repoVars
  BY DEF ServicesNext, serviceVars, RepoPartStep
<1>4. [ServicesNext]_serviceVars => [PendingNext]_pendingVars
  BY DEF ServicesNext, serviceVars
<1>5. [ServicesNext]_serviceVars => [StrategistNext]_strategistVars
  BY DEF ServicesNext, serviceVars, StrategistStep
<1> QED BY <1>1, <1>2, <1>3, <1>4, <1>5, PTL DEF ServicesSpec, PoolSpec, RepoSpec, PendingSpec, StrategistSpec

\* The variables of the pools keep their types.
THEOREM PoolTypes == PoolSpec => []PoolTypeOK
<1>1. PoolInv => PoolTypeOK
  BY DEF PoolInv
<1> QED BY <1>1, PoolInvariance, PTL

\* The variables of the recommended actions keep their types.
THEOREM PendingTypes == PendingSpec => []PendingTypeOK
<1>1. PendingInv => PendingTypeOK
  BY DEF PendingInv
<1> QED BY <1>1, PendingInvariance, PTL

\* Every variable of the four keeps its type.
THEOREM ServiceTypes == ServicesSpec => []ServicesTypeOK
<1>1. PoolTypeOK /\ RepoTypeOK /\ PendingTypeOK /\ StrategistTypeOK => ServicesTypeOK
  BY DEF ServicesTypeOK
<1> QED BY <1>1, EachServiceAlone, PoolTypes, RepoTypes, PendingTypes, StrategistTypes, PTL

\* What each of the four promises, it keeps beside the others.
THEOREM ServicesKept ==
    ServicesSpec => /\ []OpenPoolsKept /\ []PoolsCurrent /\ []RefusedWhenAbsent
                    /\ []WorktreesOnRecord /\ []RunsInTree /\ []SessionReleased
                    /\ []DecisionsHold /\ []AdviceTaken /\ []AccountKept /\ []BatchesWarranted
  BY EachServiceAlone, PoolsAreKept, PoolsAreCurrent, RefusalsAreDue, WorktreesAreOnRecord, CommandsRunInTrees,
     SessionsAreReleased, DecisionsAreKept, AdviceIsTaken, AccountIsKept, BatchesAreWarranted, PTL

=============================================================================
