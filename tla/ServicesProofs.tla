--------------------------- MODULE ServicesProofs ---------------------------
(***************************************************************************)
(* Proofs about the log-drain API: for any requests, ids, sessions and     *)
(* faults, over Postgres or Redis, a drain that was created stays until it *)
(* is deleted, one that was deleted is gone, and storage is what Shuttle   *)
(* takes it for; and whatever lines and failures there are, a session      *)
(* shows what a drain of the same app or site is sent, and passes over the *)
(* rest.                                                                   *)
(***************************************************************************)
EXTENDS Services, SequenceTheorems, WellFoundedInduction, TLAPS

(***************************************************************************)
(* The inductive invariant.                                                *)
(***************************************************************************)
Typed ==
  /\ backend \in {"postgres", "redis"}
  /\ DOMAIN at = Requests /\ DOMAIN found = Requests /\ DOMAIN reply = Requests

\* Every id in storage was given out for a route.
RowsIssued ==
  /\ \A r \in rows : r.id \in issued
  /\ issued \subseteq Ids \cap used

IdsUnique == \A r, s \in rows : r.id = s.id => r = s

\* A request that has not begun has neither found nor answered anything.
ArrivedIsFresh ==
  \A q \in Requests : at[q] = "arrived" => found[q] = Store!NoRoute /\ reply[q] = NoReply

\* A creation adds an id that never was in storage, and that no other adds.
Adds(q) == found[q].id \in (Ids \cap used) \ issued

AddersFresh ==
  \A q \in Requests : at[q] = "add" =>
    /\ call[q].kind = "create" /\ reply[q] = NoReply
    /\ Adds(q)
    /\ \A p \in Requests : at[p] = "add" /\ found[p].id = found[q].id => p = q

\* A deletion that found a route knows the row of its id, if there is one.
Knows(q) ==
  /\ found[q].id = call[q].id /\ found[q].id \in issued
  /\ \A r \in rows : r.id = found[q].id => r = found[q]

RemoversKnow ==
  \A q \in Requests : at[q] = "remove" =>
    /\ call[q].kind = "delete" /\ reply[q] = NoReply
    /\ found[q] = Store!NoRoute \/ Knows(q)

Created(q) == call[q].kind = "create" /\ reply[q].status = 201

Deleted(q) == call[q].kind = "delete" /\ reply[q].status = 200 /\ reply[q].id # "none"

\* What was answered stays answered, and was about an id that was issued.
AnsweredIssued ==
  \A q \in Requests :
    /\ Created(q) => at[q] = "answered" /\ reply[q].id = found[q].id /\ found[q].id \in issued
    /\ Deleted(q) => at[q] = "answered" /\ call[q].id \in issued

IInv ==
  /\ Typed /\ RowsIssued /\ IdsUnique /\ ArrivedIsFresh
  /\ AddersFresh /\ RemoversKnow /\ AnsweredIssued
  /\ CreatedStays /\ DeletedIsGone

(***************************************************************************)
(* Lemmas.                                                                 *)
(***************************************************************************)
\* NoRoute has the id "none", which no row has.
LEMMA NoRouteNotStored ==
  ASSUME RowsIssued
  PROVE  /\ Store!NoRoute.id = "none"
         /\ "none" \notin issued
         /\ \A r \in rows : r.id # "none" /\ r # Store!NoRoute
BY NoneIsNoId DEF RowsIssued, Store!NoRoute

\* The steps that leave storage alone: of one request at most, which is not
\* told that it created or deleted a drain, and finds nothing.
LEMMA AnswerStep ==
  ASSUME IInv, NEW q \in Requests,
         at[q] = "arrived",
         at'[q] \in {"answered", "reading"},
         DOMAIN at' = Requests, DOMAIN reply' = Requests,
         \A p \in Requests \ {q} : at'[p] = at[p] /\ reply'[p] = reply[p],
         call[q].kind = "create" => reply'[q].status # 201,
         call[q].kind = "delete" => reply'[q].status # 200,
         UNCHANGED <<backend, rows, call, found, issued>>, used \subseteq used'
  PROVE  IInv'
<1>1. Typed'
  BY DEF IInv, Typed
<1>2. RowsIssued' /\ IdsUnique'
  BY DEF IInv, RowsIssued, IdsUnique
<1>3. ArrivedIsFresh'
  BY DEF IInv, ArrivedIsFresh
<1>4. AddersFresh'
  BY DEF IInv, AddersFresh, Adds
<1>5. RemoversKnow'
  BY DEF IInv, RemoversKnow, Knows
<1>6. AnsweredIssued'
  BY DEF IInv, AnsweredIssued, Created, Deleted
<1>7. CreatedStays'
  <2> SUFFICES ASSUME NEW c \in Requests, call[c].kind = "create", reply'[c].status = 201
               PROVE  \/ found[c] \in rows
                      \/ \E d \in Requests : /\ call[d].kind = "delete" /\ call[d].id = reply'[c].id
                                             /\ found[d] = found[c]
    BY DEF CreatedStays
  <2>1. c # q
    OBVIOUS
  <2>2. reply'[c] = reply[c]
    BY <2>1
  <2> QED BY <2>2 DEF IInv, CreatedStays
<1>8. DeletedIsGone'
  BY DEF IInv, DeletedIsGone
<1> QED BY <1>1, <1>2, <1>3, <1>4, <1>5, <1>6, <1>7, <1>8 DEF IInv

\* A creation that draws an id: it is of no row and of no other creation.
LEMMA CreateStep ==
  ASSUME IInv, NEW q \in Requests, CreateLogDrain(q)
  PROVE  IInv'
<1>1. /\ at[q] = "arrived" /\ call[q].kind = "create"
      /\ UNCHANGED <<backend, rows, call, issued>>
  BY DEF CreateLogDrain, Is, GoesOn, Replies, storeVars
<1>2. CASE \E id \in Ids \ used :
             GoesOn(q, "add", RouteOf(id, Subject(call[q]))) /\ used' = used \cup {id}
  <2>1. PICK id \in Ids \ used :
          GoesOn(q, "add", RouteOf(id, Subject(call[q]))) /\ used' = used \cup {id}
    BY <1>2
  <2> DEFINE r == RouteOf(id, Subject(call[q]))
  <2>2. r.id = id
    BY DEF RouteOf
  <2> HIDE DEF r
  <2>3. /\ DOMAIN at' = Requests /\ DOMAIN found' = Requests /\ reply' = reply
        /\ at'[q] = "add" /\ found'[q] = r
        /\ \A p \in Requests \ {q} : at'[p] = at[p] /\ found'[p] = found[p]
    BY <2>1 DEF GoesOn, Goto, IInv, Typed, r
  <2>4. id \notin issued /\ id \in Ids \cap used' /\ used \subseteq used'
    BY <2>1 DEF IInv, RowsIssued
  <2>5. reply[q] = NoReply
    BY <1>1 DEF IInv, ArrivedIsFresh
  <2>6. Typed' /\ RowsIssued' /\ IdsUnique'
    BY <1>1, <2>3, <2>4 DEF IInv, Typed, RowsIssued, IdsUnique
  <2>7. ArrivedIsFresh'
    BY <2>3 DEF IInv, ArrivedIsFresh
  <2>8. AddersFresh'
    <3>1. ASSUME NEW p \in Requests \ {q}, at[p] = "add"
          PROVE  found[p].id # id
      BY <2>1, <3>1 DEF IInv, AddersFresh, Adds
    <3> QED BY <1>1, <2>2, <2>3, <2>4, <2>5, <3>1 DEF IInv, AddersFresh, Adds
  <2>9. RemoversKnow'
    BY <1>1, <2>3 DEF IInv, RemoversKnow, Knows
  <2>10. AnsweredIssued'
    BY <1>1, <2>3, <2>5 DEF IInv, AnsweredIssued, Created, Deleted, NoReply
  <2>11. CreatedStays'
    <3> SUFFICES ASSUME NEW c \in Requests, call[c].kind = "create", reply[c].status = 201
                 PROVE  \/ found'[c] \in rows
                        \/ \E d \in Requests : /\ call[d].kind = "delete" /\ call[d].id = reply[c].id
                                               /\ found'[d] = found'[c]
      BY <1>1, <2>3 DEF CreatedStays
    <3>1. c # q
      BY <2>5 DEF NoReply
    <3>2. found'[c] = found[c]
      BY <2>3, <3>1
    <3>3. CASE found[c] \in rows
      BY <3>2, <3>3
    <3>4. CASE \E d \in Requests : /\ call[d].kind = "delete" /\ call[d].id = reply[c].id
                                    /\ found[d] = found[c]
      BY <1>1, <2>3, <3>2, <3>4
    <3> QED BY <3>3, <3>4 DEF IInv, CreatedStays
  <2>12. DeletedIsGone'
    BY <1>1, <2>3 DEF IInv, DeletedIsGone
  <2> QED BY <2>6, <2>7, <2>8, <2>9, <2>10, <2>11, <2>12 DEF IInv
<1>3. CASE UNCHANGED used /\ \E status \in {Panics, Malformed} : Replies(q, status, "none")
  BY <1>1, <1>3, AnswerStep DEF Replies, Goto, Panics, Malformed, IInv, Typed
<1> QED BY <1>2, <1>3 DEF CreateLogDrain

\* A creation at storage: its row is new, whether or not the call fails.
LEMMA AddStep ==
  ASSUME IInv, NEW q \in Requests, AddLogDrain(q)
  PROVE  IInv'
<1>1. /\ at[q] = "add" /\ call[q].kind = "create" /\ reply[q] = NoReply
      /\ Adds(q)
      /\ UNCHANGED <<backend, call, found, used>>
  BY DEF AddLogDrain, Is, Replies, Store!AddRoute, IInv, AddersFresh
<1>2. /\ rows' \in {rows, rows \cup {found[q]}}
      /\ \/ rows' = rows \cup {found[q]} /\ Replies(q, 201, found[q].id)
         \/ Replies(q, 500, "none")
  BY DEF AddLogDrain, Store!AddRoute, Store!Changes
<1>3. issued' = issued \cup {r.id : r \in rows'}
  BY DEF AddLogDrain
<1>4. /\ DOMAIN at' = Requests /\ DOMAIN reply' = Requests
      /\ at'[q] = "answered"
      /\ \A p \in Requests \ {q} : at'[p] = at[p] /\ reply'[p] = reply[p]
      /\ \/ reply'[q].status = 201 /\ reply'[q].id = found[q].id /\ found[q] \in rows'
         \/ reply'[q].status = 500
  BY <1>2 DEF Replies, Goto, IInv, Typed
<1>5. \A r \in rows : r.id # found[q].id
  BY <1>1 DEF Adds, IInv, RowsIssued
<1>6. /\ issued \subseteq issued' /\ rows \subseteq rows'
      /\ issued' \subseteq issued \cup {found[q].id}
      /\ \A r \in rows' : r \in rows \/ r = found[q]
  BY <1>2, <1>3 DEF IInv, RowsIssued
<1>7. Typed'
  BY <1>1, <1>4 DEF IInv, Typed
<1>8. RowsIssued'
  <2>1. \A r \in rows' : r.id \in issued'
    BY <1>3
  <2> QED BY <2>1, <1>1, <1>6 DEF IInv, RowsIssued, Adds
<1>9. IdsUnique'
  BY <1>5, <1>6 DEF IInv, IdsUnique
<1>10. ArrivedIsFresh'
  BY <1>1, <1>4 DEF IInv, ArrivedIsFresh
<1>11. AddersFresh'
  <2> SUFFICES ASSUME NEW p \in Requests, at'[p] = "add"
               PROVE  /\ call[p].kind = "create" /\ reply'[p] = NoReply
                      /\ found[p].id \in (Ids \cap used) \ issued'
                      /\ \A o \in Requests : at'[o] = "add" /\ found[o].id = found[p].id => o = p
    BY <1>1 DEF AddersFresh, Adds
  <2>1. p # q /\ at[p] = "add" /\ reply'[p] = reply[p]
    BY <1>4
  <2>2. found[p].id # found[q].id
    BY <1>1, <2>1 DEF IInv, AddersFresh
  <2> QED BY <1>4, <1>6, <2>1, <2>2 DEF IInv, AddersFresh, Adds
<1>12. RemoversKnow'
  <2> SUFFICES ASSUME NEW p \in Requests, at'[p] = "remove"
               PROVE  /\ call[p].kind = "delete" /\ reply'[p] = NoReply
                      /\ found[p] = Store!NoRoute \/ Knows(p)'
    BY <1>1 DEF RemoversKnow
  <2>1. p # q /\ at[p] = "remove" /\ reply'[p] = reply[p]
    BY <1>4
  <2>2. ASSUME Knows(p) PROVE Knows(p)'
    BY <1>1, <1>6, <2>2 DEF Knows, Adds
  <2> QED BY <2>1, <2>2 DEF IInv, RemoversKnow
<1>13. AnsweredIssued'
  <2>1. found[q] \in rows' => found[q].id \in issued'
    BY <1>3
  <2> QED BY <1>1, <1>4, <1>6, <2>1 DEF IInv, AnsweredIssued, Created, Deleted
<1>14. CreatedStays'
  BY <1>1, <1>4, <1>6 DEF IInv, CreatedStays
<1>15. DeletedIsGone'
  <2> SUFFICES ASSUME NEW d \in Requests, call[d].kind = "delete", reply'[d].status = 200,
                      reply'[d].id # "none", NEW r \in rows'
               PROVE  r.id # call[d].id
    BY <1>1 DEF DeletedIsGone
  <2>1. d # q /\ reply'[d] = reply[d]
    BY <1>1, <1>4
  <2>2. call[d].id \in issued
    BY <2>1 DEF IInv, AnsweredIssued, Deleted
  <2> QED BY <1>1, <1>6, <2>1, <2>2 DEF IInv, DeletedIsGone, Adds
<1> QED BY <1>7, <1>8, <1>9, <1>10, <1>11, <1>12, <1>13, <1>14, <1>15 DEF IInv

\* A deletion that looks its route up: what it finds is the row of its id.
LEMMA FindStep ==
  ASSUME IInv, NEW q \in Requests, FindLogDrain(q)
  PROVE  IInv'
<1>1. /\ at[q] = "arrived" /\ call[q].kind = "delete" /\ reply[q] = NoReply
      /\ found[q] = Store!NoRoute
      /\ UNCHANGED <<backend, rows, call, issued, used>>
  BY DEF FindLogDrain, Is, GoesOn, Replies, Store!GetRouteById, IInv, ArrivedIsFresh
<1>2. PICK r \in rows \cup {Store!NoRoute} :
        /\ Store!GetRouteById(call[q].id, r)
        /\ IF r = Store!NoRoute /\ backend = "redis"
             THEN Replies(q, Panics, "none")
             ELSE GoesOn(q, "remove", r)
  BY DEF FindLogDrain
<1>3. CASE Replies(q, Panics, "none")
  BY <1>1, <1>3, AnswerStep DEF Replies, Goto, Panics, IInv, Typed
<1>4. CASE GoesOn(q, "remove", r)
  <2>1. /\ DOMAIN at' = Requests /\ DOMAIN found' = Requests /\ reply' = reply
        /\ at'[q] = "remove" /\ found'[q] = r
        /\ \A p \in Requests \ {q} : at'[p] = at[p] /\ found'[p] = found[p]
    BY <1>4 DEF GoesOn, Goto, IInv, Typed
  <2>2. r = Store!NoRoute \/ (r \in rows /\ r.id = call[q].id)
    BY <1>2 DEF Store!GetRouteById
  <2>3. Typed' /\ RowsIssued' /\ IdsUnique' /\ ArrivedIsFresh' /\ AddersFresh'
    BY <1>1, <2>1 DEF IInv, Typed, RowsIssued, IdsUnique, ArrivedIsFresh, AddersFresh, Adds
  <2>4. RemoversKnow'
    <3>1. r \in rows => r.id \in issued /\ \A s \in rows : s.id = r.id => s = r
      BY DEF IInv, RowsIssued, IdsUnique
    <3> QED BY <1>1, <2>1, <2>2, <3>1 DEF IInv, RemoversKnow, Knows
  <2>5. AnsweredIssued' /\ DeletedIsGone'
    BY <1>1, <2>1 DEF IInv, AnsweredIssued, Created, Deleted, DeletedIsGone
  <2>6. CreatedStays'
    <3> SUFFICES ASSUME NEW c \in Requests, call[c].kind = "create", reply[c].status = 201
                 PROVE  \/ found'[c] \in rows
                        \/ \E d \in Requests : /\ call[d].kind = "delete" /\ call[d].id = reply[c].id
                                               /\ found'[d] = found'[c]
      BY <1>1, <2>1 DEF CreatedStays
    <3>1. c # q /\ found'[c] = found[c]
      BY <1>1, <2>1
    <3>2. ASSUME NEW d \in Requests, call[d].kind = "delete", call[d].id = reply[c].id,
                 found[d] = found[c]
          PROVE  d # q
      <4>1. reply[c].id = found[c].id /\ found[c].id \in issued
        BY DEF IInv, AnsweredIssued, Created
      <4>2. found[c] # Store!NoRoute
        BY <4>1, NoRouteNotStored DEF IInv
      <4> QED BY <1>1, <3>2, <4>2
    <3> QED BY <1>1, <2>1, <3>1, <3>2 DEF IInv, CreatedStays
  <2> QED BY <2>3, <2>4, <2>5, <2>6 DEF IInv
<1> QED BY <1>2, <1>3, <1>4

\* What a deletion takes away is the row it knows, and no other.
LEMMA MatchesItsOwn ==
  ASSUME IInv, NEW q \in Requests, at[q] = "remove", NEW r \in Store!Matching(found[q])
  PROVE  r \in rows /\ r = found[q] /\ r.id = call[q].id
<1>1. /\ r \in rows
      /\ r.id = found[q].id \/ r = found[q]
  BY DEF Store!Matching
<1>2. found[q] # Store!NoRoute
  BY <1>1, NoRouteNotStored DEF IInv
<1>3. Knows(q)
  BY <1>2 DEF IInv, RemoversKnow
<1> QED BY <1>1, <1>3 DEF Knows

\* A deletion at storage.
LEMMA RemoveStep ==
  ASSUME IInv, NEW q \in Requests, DeleteLogDrain(q)
  PROVE  IInv'
<1>1. /\ at[q] = "remove" /\ call[q].kind = "delete" /\ reply[q] = NoReply
      /\ found[q] = Store!NoRoute \/ Knows(q)
      /\ UNCHANGED <<backend, call, found, issued, used>>
  BY DEF DeleteLogDrain, Is, Replies, Store!RemoveRoute, IInv, RemoversKnow
<1> DEFINE gone == Store!Matching(found[q])
<1>2. /\ rows' \in {rows, rows \ gone}
      /\ \/ rows' = rows \ gone /\ Replies(q, 200, found[q].id)
         \/ Replies(q, 500, "none")
  BY DEF DeleteLogDrain, Store!RemoveRoute, Store!Changes
<1> HIDE DEF gone
<1>3. /\ DOMAIN at' = Requests /\ DOMAIN reply' = Requests
      /\ at'[q] = "answered"
      /\ \A p \in Requests \ {q} : at'[p] = at[p] /\ reply'[p] = reply[p]
      /\ \/ reply'[q].status = 200 /\ reply'[q].id = found[q].id /\ rows' = rows \ gone
         \/ reply'[q].status = 500
  BY <1>2 DEF Replies, Goto, IInv, Typed
<1>4. \A r \in gone : r = found[q] /\ r.id = call[q].id
  BY <1>1, MatchesItsOwn DEF gone
<1>5. rows' \subseteq rows /\ \A r \in rows : r \in rows' \/ r \in gone
  BY <1>2
<1>6. Typed' /\ RowsIssued' /\ IdsUnique' /\ ArrivedIsFresh'
  BY <1>1, <1>3, <1>5 DEF IInv, Typed, RowsIssued, IdsUnique, ArrivedIsFresh
<1>7. AddersFresh'
  BY <1>1, <1>3 DEF IInv, AddersFresh, Adds
<1>8. RemoversKnow'
  BY <1>1, <1>3, <1>5 DEF IInv, RemoversKnow, Knows
<1>9. AnsweredIssued'
  <2>1. Knows(q) => call[q].id \in issued
    BY DEF Knows
  <2>2. found[q] = Store!NoRoute => found[q].id = "none"
    BY DEF Store!NoRoute
  <2> QED BY <1>1, <1>3, <2>1, <2>2 DEF IInv, AnsweredIssued, Created, Deleted
<1>10. CreatedStays'
  <2> SUFFICES ASSUME NEW c \in Requests, call[c].kind = "create", reply'[c].status = 201
               PROVE  \/ found[c] \in rows'
                      \/ \E d \in Requests : /\ call[d].kind = "delete" /\ call[d].id = reply'[c].id
                                             /\ found[d] = found[c]
    BY <1>1 DEF CreatedStays
  <2>1. c # q /\ reply'[c] = reply[c]
    BY <1>1, <1>3
  <2>2. CASE found[c] \in rows
    <3>1. reply[c].id = found[c].id
      BY <2>1 DEF IInv, AnsweredIssued, Created
    <3> QED BY <1>1, <1>4, <1>5, <2>1, <2>2, <3>1
  <2> QED BY <2>1, <2>2 DEF IInv, CreatedStays
<1>11. DeletedIsGone'
  <2> SUFFICES ASSUME NEW d \in Requests, call[d].kind = "delete", reply'[d].status = 200,
                      reply'[d].id # "none", NEW r \in rows'
               PROVE  r.id # call[d].id
    BY <1>1 DEF DeletedIsGone
  <2>1. CASE d # q
    BY <1>3, <1>5, <2>1 DEF IInv, DeletedIsGone
  <2>2. CASE d = q
    <3>1. /\ found[q] # Store!NoRoute /\ rows' = rows \ gone
      BY <1>3, <2>2 DEF Store!NoRoute
    <3>2. Knows(q)
      BY <1>1, <3>1
    <3>3. r \in rows /\ (r.id = found[q].id => r = found[q])
      BY <1>5, <3>2 DEF Knows
    <3>4. r = found[q] => r \in gone
      BY <1>5 DEF gone, Store!Matching
    <3> QED BY <2>2, <3>1, <3>2, <3>3, <3>4 DEF Knows
  <2> QED BY <2>1, <2>2
<1> QED BY <1>6, <1>7, <1>8, <1>9, <1>10, <1>11 DEF IInv

\* The exit of a service ends requests, and nothing else the invariant is about.
LEMMA ExitStep ==
  ASSUME IInv, NEW service, Exits(service)
  PROVE  IInv'
<1>1. /\ UNCHANGED <<backend, rows, call, found, reply, used, issued>>
      /\ DOMAIN at' = Requests
      /\ \A q \in Requests : \/ at'[q] = at[q]
                             \/ at[q] # "answered" /\ at'[q] = "lost"
  BY DEF Exits, storeVars
<1>2. Typed' /\ RowsIssued' /\ IdsUnique' /\ ArrivedIsFresh'
  BY <1>1 DEF IInv, Typed, RowsIssued, IdsUnique, ArrivedIsFresh
<1>3. AddersFresh' /\ RemoversKnow'
  BY <1>1 DEF IInv, AddersFresh, Adds, RemoversKnow, Knows
<1>4. AnsweredIssued' /\ CreatedStays' /\ DeletedIsGone'
  BY <1>1 DEF IInv, AnsweredIssued, Created, Deleted, CreatedStays, DeletedIsGone
<1> QED BY <1>2, <1>3, <1>4 DEF IInv

\* A step that changes nothing that the invariant is about.
LEMMA OtherStep ==
  ASSUME IInv, UNCHANGED <<backend, rows, call, at, found, reply, used, issued>>
  PROVE  IInv'
BY DEF IInv, Typed, RowsIssued, IdsUnique, ArrivedIsFresh, AddersFresh, Adds, RemoversKnow,
       Knows, AnsweredIssued, Created, Deleted, CreatedStays, DeletedIsGone

LEMMA Initial == Init => IInv
<1> SUFFICES ASSUME Init PROVE IInv
  OBVIOUS
<1>1. /\ backend \in {"postgres", "redis"} /\ rows = {} /\ used = {} /\ issued = {}
      /\ at = [q \in Requests |-> "arrived"]
      /\ found = [q \in Requests |-> Store!NoRoute]
      /\ reply = [q \in Requests |-> NoReply]
  BY DEF Init, Store!Init
<1> QED BY <1>1 DEF IInv, Typed, RowsIssued, IdsUnique, ArrivedIsFresh, AddersFresh, RemoversKnow,
           AnsweredIssued, Created, Deleted, CreatedStays, DeletedIsGone, NoReply

\* A request that storage is only read for, or whose answer is of another kind.
LEMMA ReadingStep ==
  ASSUME IInv, NEW q \in Requests,
         \/ GetLogDrain(q) \/ ListLogDrains(q) \/ CreateLogEvent(q)
         \/ CreateLogSession(q) \/ MalformedLogSession(q) \/ ReadLogSession(q)
  PROVE  IInv'
<1>1. /\ at[q] = "arrived"
      /\ call[q].kind \notin {"create", "delete"}
      /\ UNCHANGED <<backend, rows, call, found, issued>>
      /\ used \subseteq used'
      /\ \/ \E status, id : Replies(q, status, id)
         \/ Goto(q, "reading") /\ UNCHANGED reply
  BY DEF GetLogDrain, ListLogDrains, CreateLogEvent, CreateLogSession, MalformedLogSession,
         ReadLogSession, Is, Replies, Store!GetRouteById, Store!GetRoutes, Store!SetSession,
         Store!GetSession, storeVars
<1>2. CASE \E status, id : Replies(q, status, id)
  BY <1>1, <1>2, AnswerStep DEF Replies, Goto, IInv, Typed
<1>3. CASE Goto(q, "reading") /\ UNCHANGED reply
  BY <1>1, <1>3, AnswerStep DEF Goto, IInv, Typed
<1> QED BY <1>1, <1>2, <1>3

LEMMA Inductive == IInv /\ [Next]_vars => IInv'
<1> SUFFICES ASSUME IInv, [Next]_vars PROVE IInv'
  OBVIOUS
<1>1. ASSUME NEW q \in Requests, Handle(q)
      PROVE  IInv'
  BY <1>1, CreateStep, AddStep, FindStep, RemoveStep, ReadingStep DEF Handle
<1>2. ASSUME NEW q \in Requests, Read(q)
      PROVE  IInv'
  BY <1>2, OtherStep DEF Read, storeVars, requestVars
<1>3. CASE Signal
  BY <1>3, OtherStep DEF Signal, storeVars, requestVars
<1>4. CASE \E service \in {"shuttle", "session"} : Exits(service)
  BY <1>4, ExitStep
<1>5. CASE Elsewhere
  BY <1>5, OtherStep DEF Elsewhere, Store!SessionExpires, Store!DeleteExpired, storeVars, requestVars
<1>6. CASE UNCHANGED vars
  BY <1>6, OtherStep DEF vars, storeVars, requestVars
<1> QED BY <1>1, <1>2, <1>3, <1>4, <1>5, <1>6 DEF Next

(***************************************************************************)
(* Theorems.                                                               *)
(***************************************************************************)
\* The invariant holds of the API over either storage.
THEOREM Invariance == Spec => []IInv
<1>1. Init => IInv
  BY Initial
<1>2. IInv /\ [Next]_vars => IInv'
  BY Inductive
<1> QED BY <1>1, <1>2, PTL DEF Spec

\* A drain whose creation was answered 201 (CreateLogDrain) is in storage until
\* a deletion that found it, for any number of requests and failed calls.
THEOREM CreationLasts == Spec => []CreatedStays
<1>1. IInv => CreatedStays
  BY DEF IInv
<1> QED BY <1>1, Invariance, PTL

\* A deletion that answered 200 with the drain (DeleteLogDrain) has deleted it
\* for good: no creation takes its id again, and no failed call brings it back.
THEOREM DeletionLasts == Spec => []DeletedIsGone
<1>1. IInv => DeletedIsGone
  BY DEF IInv
<1> QED BY <1>1, Invariance, PTL

\* The ids in storage: what RouteStore calls stored.
StoredIds == {r.id : r \in rows}

\* AddRoute, carried out or not, is a Create or a stutter.
LEMMA AddRefines ==
  ASSUME IInv, NEW q \in Requests, AddLogDrain(q)
  PROVE  R!Next \/ UNCHANGED <<StoredIds, issued>>
<1>1. /\ rows' \in {rows, rows \cup {found[q]}}
      /\ issued' = issued \cup StoredIds'
  BY DEF AddLogDrain, Store!AddRoute, Store!Changes, StoredIds
<1>2. found[q].id \in Ids /\ found[q].id \notin issued
  BY DEF AddLogDrain, Is, IInv, AddersFresh, Adds
<1>3. StoredIds \subseteq issued
  BY DEF IInv, RowsIssued, StoredIds
<1>4. CASE rows' = rows
  <2>1. StoredIds' = StoredIds
    BY <1>4 DEF StoredIds
  <2> QED BY <1>1, <1>3, <2>1
<1>5. CASE rows' = rows \cup {found[q]}
  <2>1. StoredIds' = StoredIds \cup {found[q].id}
    BY <1>5 DEF StoredIds
  <2>2. issued' = issued \cup {found[q].id}
    BY <1>1, <1>3, <2>1
  <2> QED BY <1>2, <2>1, <2>2 DEF R!Next, R!Create, StoredIds
<1> QED BY <1>1, <1>4, <1>5

\* RemoveRoute, carried out or not, is a Delete or a stutter: it takes one row
\* at most.
LEMMA RemoveRefines ==
  ASSUME IInv, NEW q \in Requests, DeleteLogDrain(q)
  PROVE  R!Next \/ UNCHANGED <<StoredIds, issued>>
<1> DEFINE gone == Store!Matching(found[q])
<1>1. /\ at[q] = "remove"
      /\ rows' \in {rows, rows \ gone} /\ issued' = issued
  BY DEF DeleteLogDrain, Is, Store!RemoveRoute, Store!Changes
<1>2. \A r \in gone : r \in rows /\ r = found[q]
  BY <1>1, MatchesItsOwn
<1> HIDE DEF gone
<1>3. CASE rows' = rows
  BY <1>1, <1>3 DEF StoredIds
<1>4. CASE gone = {} /\ rows' = rows \ gone
  BY <1>1, <1>4 DEF StoredIds
<1>5. CASE gone # {} /\ rows' = rows \ gone
  <2>1. gone = {found[q]} /\ found[q] \in rows
    BY <1>2, <1>5
  <2>2. rows' = rows \ {found[q]}
    BY <1>5, <2>1
  <2>3. \A r \in rows : r.id = found[q].id => r = found[q]
    BY <2>1 DEF IInv, IdsUnique
  <2>4. StoredIds' = StoredIds \ {found[q].id}
    BY <2>1, <2>2, <2>3 DEF StoredIds
  <2>5. found[q].id \in StoredIds /\ found[q].id \in Ids
    BY <2>1 DEF StoredIds, IInv, RowsIssued
  <2> QED BY <1>1, <2>4, <2>5 DEF R!Next, R!Delete, StoredIds
<1> QED BY <1>1, <1>3, <1>4, <1>5

LEMMA StepRefines == IInv /\ [Next]_vars => R!Next \/ UNCHANGED <<StoredIds, issued>>
<1> SUFFICES ASSUME IInv, [Next]_vars PROVE R!Next \/ UNCHANGED <<StoredIds, issued>>
  OBVIOUS
<1>1. (rows' = rows /\ issued' = issued) => UNCHANGED <<StoredIds, issued>>
  BY DEF StoredIds
<1>2. ASSUME NEW q \in Requests, Handle(q)
      PROVE  R!Next \/ UNCHANGED <<StoredIds, issued>>
  <2>1. CASE AddLogDrain(q)
    BY <2>1, AddRefines
  <2>2. CASE DeleteLogDrain(q)
    BY <2>2, RemoveRefines
  <2>3. CASE ~AddLogDrain(q) /\ ~DeleteLogDrain(q)
    <3>1. rows' = rows /\ issued' = issued
      BY <1>2, <2>3 DEF Handle, CreateLogDrain, FindLogDrain, GetLogDrain, ListLogDrains,
         CreateLogEvent, CreateLogSession, MalformedLogSession, ReadLogSession,
         Store!GetRouteById, Store!GetRoutes, Store!SetSession, Store!GetSession, storeVars
    <3> QED BY <3>1, <1>1
  <2> QED BY <2>1, <2>2, <2>3
<1>3. CASE \/ \E q \in Requests : Read(q)
           \/ Signal
           \/ \E service \in {"shuttle", "session"} : Exits(service)
           \/ Elsewhere
           \/ UNCHANGED vars
  <2>1. rows' = rows /\ issued' = issued
    BY <1>3 DEF Read, Signal, Exits, Elsewhere, Store!SessionExpires, Store!DeleteExpired,
       vars, storeVars
  <2> QED BY <2>1, <1>1
<1> QED BY <1>2, <1>3 DEF Next

\* The log-drain API over Postgres or Redis implements RouteStore, the storage
\* that Shuttle assumes: routes come and go one at a time and never come back,
\* whatever calls fail and whenever the service exits.
THEOREM StorageRefinement == Spec => ImplementsRouteStore
<1>1. Init => R!Init
  <2> SUFFICES ASSUME Init PROVE R!Init
    OBVIOUS
  <2>1. rows = {} /\ issued = {}
    BY DEF Init, Store!Init
  <2> QED BY <2>1 DEF R!Init
<1>2. IInv /\ [Next]_vars => [R!Next]_(<<{r.id : r \in rows}, issued>>)
  BY StepRefines DEF StoredIds
<1> QED BY <1>1, <1>2, Invariance, PTL DEF Spec, ImplementsRouteStore, R!Spec

(***************************************************************************)
(* Names of any characters and length: how a container, the key of a drain *)
(* and the subject of a session relate.                                    *)
(***************************************************************************)
Lt == {pair \in Nat \X Nat : pair[1] < pair[2]}

\* A set of numbers that is not empty has a least one, which First chooses.
LEMMA FirstIsLeast ==
  ASSUME NEW D, D \subseteq Nat, D # {}
  PROVE  First(D) \in D /\ \A j \in D : First(D) <= j
<1>1. IsWellFoundedOn(Lt, Nat)
  <2>1. OpToRel(<, Nat) = Lt  BY Zenon DEF OpToRel, Lt
  <2> QED  BY <2>1, NatLessThanWellFounded
<1>2. PICK i \in D : \A j \in D : ~(<<j, i>> \in Lt)  BY <1>1, WFMin, Zenon
<1>3. \A j \in D : i <= j
  <2> SUFFICES ASSUME NEW j \in D, j < i  PROVE FALSE  OBVIOUS
  <2>1. <<j, i>> \in Lt  BY DEF Lt
  <2> QED  BY <1>2, <2>1
<1> QED  BY <1>3, Zenon DEF First

\* A name without dashes, followed by two of them and more, is an app's.
LEMMA AppOfOwn ==
  ASSUME NEW C, NEW app \in Seq(C), NEW c \in Seq(C), Dash \in C,
         Dashes(app) = {}, IsAppMatch(c, app)
  PROVE  App(c) = app
<1>1. CASE c = app
  BY <1>1 DEF App, DoubleDashes, Dashes
<1>2. CASE IsPrefix(app \o <<Dash, Dash>>, c)
  <2> DEFINE n == Len(app)
             t == app \o <<Dash, Dash>>
  <2>1. /\ n \in Nat /\ Len(t) = n + 2
        /\ \A i \in 1..n : t[i] = app[i]
        /\ t[n + 1] = Dash /\ t[n + 2] = Dash
    OBVIOUS
  <2>2. Len(t) <= Len(c) /\ SubSeq(c, 1, Len(t)) = t
    <3>1. t \in Seq(C)  OBVIOUS
    <3>2. SubSeq(t, 1, Len(t)) = t  BY <3>1, SubSeqFull
    <3>3. Len(t) <= Len(c) /\ SubSeq(t, 1, Len(t)) = SubSeq(c, 1, Len(t))
      BY <1>2, Zenon DEF IsPrefix
    <3> QED  BY <3>2, <3>3
  <2>3. \A i \in 1..(n + 2) : c[i] = t[i]
    <3>1. \A i \in 1..(n + 2) : SubSeq(c, 1, n + 2)[i] = c[i]  BY <2>1, <2>2
    <3> QED  BY <3>1, <2>1, <2>2
  <2>4. n + 1 \in DoubleDashes(c)
    BY <2>1, <2>2, <2>3 DEF DoubleDashes, Dashes
  <2>5. \A j \in DoubleDashes(c) : n + 1 <= j /\ j \in Nat
    <3> SUFFICES ASSUME NEW j \in DoubleDashes(c), j <= n  PROVE FALSE
      BY <2>1 DEF DoubleDashes, Dashes
    <3>1. j \in 1..n /\ c[j] = Dash  BY <2>1 DEF DoubleDashes, Dashes
    <3>2. app[j] = Dash  BY <3>1, <2>1, <2>3
    <3> QED  BY <3>1, <3>2 DEF Dashes
  <2>6. First(DoubleDashes(c)) = n + 1
    <3>1. \A i \in DoubleDashes(c) : (\A j \in DoubleDashes(c) : i <= j) => i = n + 1
      BY <2>1, <2>4, <2>5
    <3> QED  BY <3>1, <2>4, <2>5 DEF First
  <2>7. Before(c, n + 1) = app
    <3>1. Before(c, n + 1) = SubSeq(c, 1, n)  BY <2>1 DEF Before
    <3>2. SubSeq(c, 1, n) \in Seq(C) /\ Len(SubSeq(c, 1, n)) = n
      BY <2>1, <2>2
    <3>3. \A i \in 1..n : SubSeq(c, 1, n)[i] = app[i]  BY <2>1, <2>2, <2>3
    <3> QED  BY <3>1, <3>2, <3>3, SeqEqual
  <2> QED  BY <2>4, <2>6, <2>7 DEF App
<1> QED  BY <1>1, <1>2 DEF IsAppMatch

\* The app of a container is one that the container matches.
LEMMA OwnOfApp ==
  ASSUME NEW C, NEW c \in Seq(C), Dash \in C
  PROVE  IsAppMatch(c, App(c))
<1>1. CASE DoubleDashes(c) = {}  BY <1>1 DEF App, IsAppMatch
<1>2. CASE DoubleDashes(c) # {}
  <2> DEFINE f == First(DoubleDashes(c))
             t == Before(c, f) \o <<Dash, Dash>>
  <2>1. f \in DoubleDashes(c)
    <3>1. DoubleDashes(c) \subseteq Nat  BY DEF DoubleDashes, Dashes
    <3> QED  BY <1>2, <3>1, FirstIsLeast
  <2> HIDE DEF f
  <2>2. f \in 1..Len(c) /\ f + 1 \in 1..Len(c) /\ c[f] = Dash /\ c[f + 1] = Dash
    BY <2>1 DEF DoubleDashes, Dashes
  <2>3. /\ Before(c, f) \in Seq(C) /\ Len(Before(c, f)) = f - 1
        /\ \A i \in 1..(f - 1) : Before(c, f)[i] = c[i]
    BY <2>2 DEF Before
  <2>4. t \in Seq(C) /\ Len(t) = f + 1
    BY <2>2, <2>3
  <2>5. \A i \in 1..(f + 1) : t[i] = c[i]
    BY <2>2, <2>3
  <2>6. SubSeq(c, 1, f + 1) = t
    <3>1. /\ SubSeq(c, 1, f + 1) \in Seq(C) /\ Len(SubSeq(c, 1, f + 1)) = f + 1
          /\ \A i \in 1..(f + 1) : SubSeq(c, 1, f + 1)[i] = c[i]
      BY <2>2
    <3> QED  BY <3>1, <2>2, <2>4, <2>5, SeqEqual
  <2>7. IsPrefix(t, c)  BY <2>2, <2>4, <2>6 DEF IsPrefix
  <2>8. App(c) = Before(c, f)  BY <1>2 DEF App, f
  <2> QED  BY <2>7, <2>8 DEF IsAppMatch
<1> QED  BY <1>1, <1>2

\* IsAppMatch, which the sessions use, and the lookup of SendMessage, which the
\* drains use, agree on whose container it is, for every app without a dash.
THEOREM MatchIsLookup ==
  ASSUME NEW C, NEW app \in Seq(C), NEW c \in Seq(C), Dash \in C, Dashes(app) = {}
  PROVE  IsAppMatch(c, app) <=> App(c) = app
BY AppOfOwn, OwnOfApp

(***************************************************************************)
(* Sessions and drains.                                                    *)
(***************************************************************************)
\* What a session can be asked for: an app of a space, or a site whose name has
\* no two dashes in a row.
WellNamed(C, sub) ==
  \/ /\ sub.site = <<>> /\ sub.space \in Seq(C) \ {<<>>}
     /\ sub.app \in Seq(C) /\ Dashes(sub.app) = {}
  \/ /\ sub.site \in Seq(C) \ {<<>>} /\ DoubleDashes(sub.site) = {}
     /\ sub.app = <<>> /\ sub.space = <<>>

LineNamed(C, l) ==
  /\ l.source \in {"app", "istio", "web", "build"}
  /\ l.name \in Seq(C) /\ l.space \in Seq(C) /\ l.site \in Seq(C)
  /\ l.source = "istio" => l.space # <<>>

\* The key of the subject, put together without a separator, is not also that
\* of another app and space, or site, that l is of.
KeysTellApart(sub, l) ==
  LET p == Parsed(l)
  IN /\ SendKey(p.container, p.topic) = RouteKey(sub) =>
          App(p.container) = sub.app /\ p.topic = sub.space
     /\ SendKey(p.site, <<>>) = RouteKey(sub) => p.site = sub.site

\* Cutting a name gives names.
LEMMA SplitTyped ==
  ASSUME NEW C, NEW name \in Seq(C), Dash \in C, Default \in Seq(C)
  PROVE  SplitName(name).app \in Seq(C) /\ SplitName(name).space \in Seq(C)
<1>1. CASE Dashes(name) = {}  BY <1>1 DEF SplitName
<1>2. CASE Dashes(name) # {}
  <2> DEFINE f == First(Dashes(name))
  <2>1. Dashes(name) \subseteq 1..Len(name)  BY DEF Dashes
  <2>2. f \in 1..Len(name)  BY <1>2, <2>1, FirstIsLeast
  <2> HIDE DEF f
  <2>3. Before(name, f) \in Seq(C) /\ After(name, f) \in Seq(C)  BY <2>2 DEF Before, After
  <2> QED  BY <1>2, <2>3 DEF SplitName, f
<1> QED  BY <1>1, <1>2

\* A parsed line is for a well-formed subject.
LEMMA ParsedTyped ==
  ASSUME NEW C, NEW l, LineNamed(C, l), Dash \in C, Default \in Seq(C)
  PROVE  /\ Parsed(l).container \in Seq(C)
         /\ Parsed(l).topic \in Seq(C)
         /\ Parsed(l).site \in Seq(C)
<1>1. SplitName(l.name).app \in Seq(C) /\ SplitName(l.name).space \in Seq(C)
  BY SplitTyped DEF LineNamed
<1> QED  BY <1>1 DEF Parsed, LineNamed

\* A line that a session shows is one that a drain of the same app or site is
\* sent, and a line of the drain that the session is given is shown, as long as
\* keys tell names apart.
THEOREM ShownIsDrained ==
  ASSUME NEW C, NEW sub, NEW l, WellNamed(C, sub), LineNamed(C, l),
         Dash \in C, Default \in Seq(C), Hears(sub, l)
  PROVE  /\ Shows(sub, l) => DrainedBy(sub, l)
         /\ KeysTellApart(sub, l) /\ DrainedBy(sub, l) => Shows(sub, l)
<1> DEFINE p == Parsed(l)
<1>1. p.container \in Seq(C) /\ p.topic \in Seq(C) /\ p.site \in Seq(C)
  BY ParsedTyped
<1>2. sub.app \in Seq(C) /\ sub.space \in Seq(C) /\ sub.site \in Seq(C)
  <2>1. <<>> \in Seq(C)  OBVIOUS
  <2> QED  BY <2>1, Zenon DEF WellNamed
<1>3. Dashes(sub.app) = {}  BY DEF WellNamed, Dashes
<1>4. IsAppMatch(p.container, sub.app) <=> App(p.container) = sub.app
  BY <1>1, <1>2, <1>3, MatchIsLookup
<1>5. Decoded(l) /\ l.source # "app" => p.topic # <<>>
  BY DEF Decoded, LineNamed, Parsed
<1> HIDE DEF p
<1>6. ASSUME Shows(sub, l)  PROVE DrainedBy(sub, l)
  <2>0. Decoded(l)  BY <1>6 DEF Shows
  <2>1. CASE OfApp(sub, p)
    <3>1. sub.site = <<>>
      BY <2>0, <2>1, <1>5 DEF OfApp, WellNamed, Hears, Listens
    <3>2. SendKey(p.container, p.topic) = RouteKey(sub)
      BY <2>1, <3>1, <1>4 DEF OfApp, SendKey, RouteKey
    <3> QED  BY <2>0, <3>2 DEF DrainedBy, KeysOf, p
  <2>2. CASE l.source \in {"web", "istio"} /\ OfSite(sub, p)
    <3>1. p.site = sub.site /\ sub.site # <<>> /\ DoubleDashes(sub.site) = {}
      BY <2>2 DEF OfSite, WellNamed
    <3>2. sub.site \o <<>> = sub.site  BY <1>2
    <3>3. SendKey(p.site, <<>>) = RouteKey(sub)
      BY <3>1, <3>2 DEF SendKey, App, RouteKey
    <3> QED  BY <2>0, <2>2, <3>1, <3>3 DEF DrainedBy, KeysOf, p
  <2> QED  BY <1>6, <2>1, <2>2 DEF Shows, p
<1>7. ASSUME KeysTellApart(sub, l), DrainedBy(sub, l)  PROVE Shows(sub, l)
  <2>0. Decoded(l)  BY <1>7 DEF DrainedBy, KeysOf
  <2>1. CASE SendKey(p.container, p.topic) = RouteKey(sub)
    <3>1. OfApp(sub, p)  BY <2>1, <1>4, <1>7 DEF KeysTellApart, OfApp, p
    <3>2. l.source = "build" => sub.space # <<>>  BY <3>1, <2>0, <1>5 DEF OfApp
    <3> QED  BY <2>0, <3>1, <3>2 DEF Shows, p
  <2>2. CASE /\ l.source \in {"web", "istio"} /\ p.site # <<>>
             /\ SendKey(p.site, <<>>) = RouteKey(sub)
    BY <2>0, <2>2, <1>7 DEF KeysTellApart, OfSite, Shows, p
  <2> QED  BY <1>7, <2>0, <2>1, <2>2 DEF DrainedBy, KeysOf, p
<1> QED  BY <1>6, <1>7

(***************************************************************************)
(* Keys of drains.                                                         *)
(***************************************************************************)
\* A key that was taken apart by the first dash is put together again by
\* GetLogDrain and ListLogDrains.
THEOREM KeysRoundTrip ==
  ASSUME NEW C, NEW key \in Seq(C), Dash \in C, Dashes(key) # {}
  PROVE  SplitName(key).app \o <<Dash>> \o SplitName(key).space = key
<1> DEFINE f == First(Dashes(key))
<1>1. f \in Dashes(key)
  <2>1. Dashes(key) \subseteq Nat  BY DEF Dashes
  <2> QED  BY <2>1, FirstIsLeast
<1> HIDE DEF f
<1>2. f \in 1..Len(key) /\ key[f] = Dash  BY <1>1 DEF Dashes
<1>3. SplitName(key).app = Before(key, f) /\ SplitName(key).space = After(key, f)
  BY DEF SplitName, f
<1>4. /\ Before(key, f) \in Seq(C) /\ Len(Before(key, f)) = f - 1
      /\ \A i \in 1..(f - 1) : Before(key, f)[i] = key[i]
  BY <1>2 DEF Before
<1>5. /\ After(key, f) \in Seq(C) /\ Len(After(key, f)) = Len(key) - f
      /\ \A i \in 1..(Len(key) - f) : After(key, f)[i] = key[f + i]
  BY <1>2 DEF After
<1>6. Before(key, f) \o <<Dash>> \o After(key, f) = key
  <2> DEFINE b == Before(key, f)
             a == After(key, f)
             d == b \o <<Dash>>
  <2> HIDE DEF b, a
  <2>1. /\ b \in Seq(C) /\ Len(b) = f - 1 /\ \A i \in 1..(f - 1) : b[i] = key[i]
        /\ a \in Seq(C) /\ Len(a) = Len(key) - f /\ \A i \in 1..(Len(key) - f) : a[i] = key[f + i]
    BY <1>4, <1>5 DEF a, b
  <2>2. d \in Seq(C) /\ Len(d) = f /\ \A i \in 1..f : d[i] = key[i]
    BY <1>2, <2>1
  <2> HIDE DEF d
  <2>3. d \o a \in Seq(C) /\ Len(d \o a) = Len(key)
    <3>1. d \o a \in Seq(C) /\ Len(d \o a) = Len(d) + Len(a)
      BY <2>1, <2>2, ConcatProperties, Zenon
    <3>2. Len(key) \in Nat  OBVIOUS
    <3> QED  BY <3>1, <3>2, <1>2, <2>1, <2>2
  <2>4. ASSUME NEW i \in 1..Len(key)  PROVE (d \o a)[i] = key[i]
    <3>1. CASE i <= f
      <4>1. i \in 1..(Len(d) + Len(a)) /\ i <= Len(d)  BY <1>2, <2>1, <2>2, <3>1
      <4>2. (d \o a)[i] = d[i]  BY <4>1, <2>1, <2>2, ConcatProperties
      <4>3. i \in 1..f  BY <3>1, <1>2
      <4> QED  BY <4>2, <4>3, <2>2, Zenon
    <3>2. CASE i > f
      <4>1. (d \o a)[i] = a[i - f]
        <5>1. i \in 1..(Len(d) + Len(a)) /\ ~(i <= Len(d))  BY <1>2, <2>1, <2>2, <3>2
        <5>2. (d \o a)[i] = a[i - Len(d)]  BY <5>1, <2>1, <2>2, ConcatProperties
        <5> QED  BY <5>2, <2>2
      <4>2. i - f \in 1..(Len(key) - f)  BY <1>2, <3>2
      <4> QED  BY <4>1, <4>2, <2>1, <1>2
    <3>3. f \in Int /\ i \in Int  BY <1>2
    <3> HIDE DEF f
    <3>4. i <= f \/ i > f  BY <3>3
    <3> QED  BY <3>1, <3>2, <3>4, Zenon
  <2>5. d \o a = key  BY <2>3, <2>4, SeqEqual
  <2> QED  BY <2>5 DEF d, a, b
<1> QED  BY <1>3, <1>6

(***************************************************************************)
(* Session has operators of its own for what LogLines defines.             *)
(***************************************************************************)
LEMMA SameSplit ==
  ASSUME NEW name
  PROVE  S!SplitName(name) = SplitName(name)
<1>1. S!Dashes(name) = Dashes(name)  BY Zenon DEF S!Dashes, Dashes
<1>2. S!First(S!Dashes(name)) = First(Dashes(name))  BY <1>1, Zenon DEF S!First, First
<1> QED
  BY <1>1, <1>2, Zenon DEF S!SplitName, SplitName, S!Before, Before, S!After, After

\* The same for what is parsed, heard and shown.
LEMMA SameParsed ==
  ASSUME NEW l
  PROVE  S!Parsed(l) = Parsed(l)
<1>1. S!SplitName(l.name) = SplitName(l.name)  BY SameSplit
<1> QED  BY <1>1, Zenon DEF S!Parsed, Parsed

LEMMA SameHears ==
  ASSUME NEW sub, NEW l
  PROVE  S!Hears(sub, l) <=> Hears(sub, l)
<1>1. S!Listens(sub) = Listens(sub)  BY Zenon DEF S!Listens, Listens
<1> QED  BY <1>1, Zenon DEF S!Hears, Hears

LEMMA SameShows ==
  ASSUME NEW sub, NEW l
  PROVE  S!Shows(sub, l) <=> Shows(sub, l)
<1>1. S!Parsed(l) = Parsed(l)  BY SameParsed
<1>2. S!Decoded(l) <=> Decoded(l)  BY <1>1, Zenon DEF S!Decoded, Decoded
<1>3. S!OfApp(sub, Parsed(l)) <=> OfApp(sub, Parsed(l))
  BY Zenon DEF S!OfApp, OfApp, S!IsAppMatch, IsAppMatch, S!IsPrefix, IsPrefix
<1>4. S!OfSite(sub, Parsed(l)) <=> OfSite(sub, Parsed(l))
  BY Zenon DEF S!OfSite, OfSite
<1> QED  BY <1>1, <1>2, <1>3, <1>4, Zenon DEF S!Shows, Shows

(***************************************************************************)
(* The invariant.                                                          *)
(***************************************************************************)
\* A line that q was given, and is for it.
Own(q, l) == l \in Lines /\ Hears(subject[q], l) /\ Shows(subject[q], l)

Other(q, l) == l \in Lines /\ Hears(subject[q], l) /\ ~Shows(subject[q], l)

\* The subjects that are ever asked for.
Asked(sub) ==
  \E c \in Calls, q \in Requests :
    c[q].kind = "newsession" /\ c[q].decoded /\ sub = c[q].subject

ReadersTyped ==
  /\ DOMAIN subject = Requests /\ DOMAIN loop = Requests /\ DOMAIN event = Requests
  /\ DOMAIN shown = Requests /\ DOMAIN passed = Requests

StoredAsked ==
  /\ DOMAIN sessions = SessionIds
  /\ \A k \in SessionIds : sessions[k].state # "absent" => Asked(sessions[k].subject)

\* A request that reads a session has shown and passed over only what it was
\* given, and has its own line in hand while it writes.
ReaderTold(q) ==
  /\ loop[q].at = "off" => shown[q] = <<>> /\ passed[q] = {}
  /\ loop[q].at # "off" => Asked(subject[q])
  /\ loop[q].at = "write" => Own(q, event[q])
  /\ shown[q] \in Seq(Lines)
  /\ \A i \in DOMAIN shown[q] : Own(q, shown[q][i])
  /\ \A l \in passed[q] : Other(q, l)

SessInv ==
  /\ call \in Calls
  /\ ReadersTyped
  /\ StoredAsked
  /\ \A q \in Requests : ReaderTold(q)

\* The invariant about sessions: initially,
LEMMA SessInit == Init => SessInv
<1> SUFFICES ASSUME Init  PROVE SessInv  OBVIOUS
<1> USE DEF Init, Store!Init, S!Init, Store!Absent, S!NotReading
<1>1. ReadersTyped  BY DEF ReadersTyped
<1>2. StoredAsked  BY DEF StoredAsked
<1>3. \A q \in Requests : ReaderTold(q)  BY DEF ReaderTold
<1> QED  BY <1>1, <1>2, <1>3 DEF SessInv

\* What leaves the sessions alone keeps what was told.
LEMMA ToldKept ==
  ASSUME UNCHANGED sessionVars
  PROVE  /\ ReadersTyped => ReadersTyped'
         /\ \A q \in Requests : ReaderTold(q) => ReaderTold(q)'
BY DEF ReadersTyped, ReaderTold, sessionVars, Own, Other

\* One turn of the loop of a session leaves the other sessions alone.
LEMMA OthersAlone ==
  ASSUME ReadersTyped, NEW q \in Requests, S!SessionStep(q)
  PROVE  /\ ReadersTyped'
         /\ \A p \in Requests \ {q} :
              /\ loop'[p] = loop[p] /\ subject'[p] = subject[p] /\ event'[p] = event[p]
              /\ shown'[p] = shown[p] /\ passed'[p] = passed[p]
BY DEF ReadersTyped, S!SessionStep, S!Turn, S!PollGone, S!PollOverdue, S!Stop, S!PollNothing, S!PollError,
       S!LoopEnds, S!Return, S!Goto, S!WriteFails, S!ClientLeaves, S!Write, S!PollOwn, S!PollOther,
       S!PollPanics

\* One turn of the loop of a session.
LEMMA SessionStepTold ==
  ASSUME ReadersTyped, NEW q \in Requests, ReaderTold(q), S!SessionStep(q)
  PROVE  ReaderTold(q)'
<1> USE DEF ReadersTyped, ReaderTold, Own, Other
<1>1. CASE S!PollGone(q) \/ S!PollOverdue(q)
  <2>1. S!Stop(q)  BY <1>1 DEF S!PollGone, S!PollOverdue
  <2>2. loop'[q].at = "poll"  BY <2>1 DEF S!Stop
  <2>3. loop[q].at = "poll" /\ UNCHANGED <<subject, event, shown, passed>>
    BY <1>1 DEF S!PollGone, S!PollOverdue, S!Polling
  <2> QED  BY <2>2, <2>3
<1>2. CASE S!PollNothing(q)
  BY <1>2 DEF S!PollNothing, S!Polled, S!Polling
<1>3. CASE S!PollError(q)
  BY <1>3 DEF S!PollError, S!Polled, S!Polling
<1>4. CASE S!LoopEnds(q)
  BY <1>4 DEF S!LoopEnds, S!Goto
<1>5. CASE S!Return(q)
  BY <1>5 DEF S!Return, S!Goto
<1>6. CASE S!WriteFails(q)
  BY <1>6 DEF S!WriteFails, S!Stop
<1>7. CASE S!ClientLeaves(q)
  BY <1>7 DEF S!ClientLeaves
<1>8. CASE S!Write(q)
  <2> DEFINE after == Append(shown[q], event[q])
  <2>1. Own(q, event[q])  BY <1>8 DEF S!Write
  <2>2. /\ loop'[q].at = "poll" /\ shown'[q] = after
        /\ subject' = subject /\ passed' = passed
    BY <1>8 DEF S!Write, S!Goto
  <2>3. /\ after \in Seq(Lines)
        /\ \A i \in DOMAIN after :
             \/ i \in DOMAIN shown[q] /\ after[i] = shown[q][i]
             \/ after[i] = event[q]
    BY <2>1
  <2> QED  BY <2>1, <2>2, <2>3, <1>8 DEF S!Write
<1>9. ASSUME NEW l \in Lines, S!PollOwn(q, l)  PROVE ReaderTold(q)'
  BY <1>9, SameHears, SameShows DEF S!PollOwn, S!Comes, S!Polled, S!Polling
<1>10. ASSUME NEW l \in Lines, S!PollOther(q, l)  PROVE ReaderTold(q)'
  BY <1>10, SameHears, SameShows DEF S!PollOther, S!Comes, S!Polled, S!Polling
<1>11. ASSUME NEW l \in Lines, S!PollPanics(q, l)  PROVE ReaderTold(q)'
  BY <1>11 DEF S!PollPanics, S!Comes, S!Polled, S!Polling, S!Goto
<1> QED  BY <1>1, <1>2, <1>3, <1>4, <1>5, <1>6, <1>7, <1>8, <1>9, <1>10, <1>11
         DEF S!SessionStep, S!Turn

\* The invariant is kept by every step: a session begins with a subject that
\* was stored, which is one that was asked for.
LEMMA SessNext == SessInv /\ [Next]_vars => SessInv'
<1> SUFFICES ASSUME SessInv, [Next]_vars  PROVE SessInv'  OBVIOUS
<1> USE DEF SessInv
<1>0. ASSUME UNCHANGED sessionVars, UNCHANGED <<call, sessions>>  PROVE SessInv'
  BY <1>0, ToldKept DEF StoredAsked
<1>1. ASSUME NEW q \in Requests, Handle(q)  PROVE SessInv'
  <2>1. CASE CreateLogDrain(q)
    BY <2>1, <1>0 DEF CreateLogDrain, GoesOn, Replies, storeVars
  <2>2. CASE AddLogDrain(q) \/ DeleteLogDrain(q)
    BY <2>2, <1>0 DEF AddLogDrain, DeleteLogDrain, Replies, Store!AddRoute, Store!RemoveRoute
  <2>3. CASE FindLogDrain(q) \/ GetLogDrain(q)
    BY <2>3, <1>0 DEF FindLogDrain, GetLogDrain, GoesOn, Replies, Store!GetRouteById
  <2>4. CASE ListLogDrains(q)
    BY <2>4, <1>0 DEF ListLogDrains, Replies, Store!GetRoutes
  <2>5. CASE CreateLogEvent(q) \/ MalformedLogSession(q)
    BY <2>5, <1>0 DEF CreateLogEvent, MalformedLogSession, Replies, storeVars
  <2>6. CASE CreateLogSession(q)
    <3>1. UNCHANGED <<call, sessionVars>>  BY <2>6 DEF CreateLogSession, Replies
    <3>2. Asked(call[q].subject)
      BY <2>6 DEF CreateLogSession, Is, Asked
    <3>3. PICK k \in SessionIds :
            sessions' \in {sessions, [sessions EXCEPT ![k] = [state |-> "live", subject |-> call[q].subject]]}
      BY <2>6 DEF CreateLogSession, Store!SetSession
    <3>4. StoredAsked'  BY <3>2, <3>3 DEF StoredAsked
    <3> QED  BY <3>1, <3>4, ToldKept
  <2>7. CASE ReadLogSession(q)
    <3>1. UNCHANGED <<call, sessions>>  BY <2>7 DEF ReadLogSession, Replies, Store!GetSession
    <3>2. CASE UNCHANGED sessionVars  BY <3>1, <3>2, <1>0
    <3>3. ASSUME Store!GetSession(call[q].session, TRUE), S!Begin(q, sessions[call[q].session].subject)
          PROVE  SessInv'
      <4> DEFINE k == call[q].session
      <4>1. Asked(sessions[k].subject)
        <5>1. k \in SessionIds
          BY <2>7, SessionsAsked DEF ReadLogSession, Is
        <5>2. sessions[k].state = "live"  BY <3>3 DEF Store!GetSession, Store!Readable
        <5> QED  BY <5>1, <5>2 DEF StoredAsked
      <4>2. /\ loop[q].at = "off" /\ loop'[q].at \in {"end", "poll"}
            /\ subject' = [subject EXCEPT ![q] = sessions[k].subject]
            /\ UNCHANGED <<event, shown, passed>>
            /\ DOMAIN loop' = DOMAIN loop /\ \A p \in Requests \ {q} : loop'[p] = loop[p]
        BY <3>3 DEF S!Begin, ReadersTyped
      <4>3. ReadersTyped'  BY <4>2 DEF ReadersTyped
      <4>4. ReaderTold(q)'  BY <4>1, <4>2 DEF ReaderTold, ReadersTyped
      <4>5. \A p \in Requests \ {q} : ReaderTold(p)'
        BY <4>2 DEF ReaderTold, ReadersTyped, Own, Other
      <4> QED  BY <3>1, <4>3, <4>4, <4>5 DEF StoredAsked
    <3> QED  BY <2>7, <3>2, <3>3 DEF ReadLogSession
  <2> QED  BY <1>1, <2>1, <2>2, <2>3, <2>4, <2>5, <2>6, <2>7 DEF Handle
<1>2. ASSUME NEW q \in Requests, Read(q)  PROVE SessInv'
  <2>1. S!SessionStep(q) /\ UNCHANGED <<call, sessions>>
    BY <1>2 DEF Read, storeVars, requestVars
  <2>2. \A p \in Requests \ {q} : ReaderTold(p)'
    BY <2>1, OthersAlone DEF ReaderTold, Own, Other
  <2>3. ReadersTyped' /\ ReaderTold(q)'  BY <2>1, OthersAlone, SessionStepTold
  <2> QED  BY <2>1, <2>2, <2>3 DEF StoredAsked
<1>3. CASE Signal
  BY <1>3, <1>0 DEF Signal, storeVars, requestVars
<1>4. ASSUME NEW service \in {"shuttle", "session"}, Exits(service)  PROVE SessInv'
  <2>1. UNCHANGED <<call, sessions>>  BY <1>4 DEF Exits, storeVars
  <2>2. CASE UNCHANGED sessionVars  BY <2>1, <2>2, <1>0
  <2>3. CASE S!SessionsExit
    <3>1. /\ UNCHANGED <<subject, shown, passed>>
          /\ DOMAIN loop' = Requests /\ DOMAIN event' = Requests
          /\ \A p \in Requests : loop'[p].at = IF loop[p].at = "off" THEN "off" ELSE "end"
      BY <2>3 DEF S!SessionsExit, ReadersTyped
    <3>2. \A p \in Requests : ReaderTold(p)'  BY <3>1 DEF ReaderTold, Own, Other
    <3> QED  BY <2>1, <3>1, <3>2 DEF ReadersTyped, StoredAsked
  <2> QED  BY <1>4, <2>2, <2>3 DEF Exits
<1>5. CASE Elsewhere
  <2>1. UNCHANGED call  BY <1>5 DEF Elsewhere, requestVars
  <2>2. ASSUME NEW k \in SessionIds, Store!SessionExpires(k), UNCHANGED sessionVars  PROVE SessInv'
    <3>1. StoredAsked'  BY <2>2 DEF Store!SessionExpires, StoredAsked, Store!Absent
    <3> QED  BY <2>1, <2>2, <3>1, ToldKept
  <2>3. CASE Store!DeleteExpired /\ UNCHANGED sessionVars
    <3>1. StoredAsked'  BY <2>3 DEF Store!DeleteExpired, StoredAsked, Store!Absent
    <3> QED  BY <2>1, <2>3, <3>1, ToldKept
  <2>4. CASE S!GoQuiet /\ UNCHANGED storeVars
    BY <2>1, <2>4 DEF S!GoQuiet, storeVars, ReadersTyped, ReaderTold, StoredAsked, Own, Other
  <2> QED  BY <1>5, <2>2, <2>3, <2>4 DEF Elsewhere
<1>6. CASE UNCHANGED vars
  BY <1>6, <1>0 DEF vars, storeVars, requestVars
<1> QED  BY <1>1, <1>2, <1>3, <1>4, <1>5, <1>6 DEF Next

\* In every run of the services each reader has the subject of a session that was
\* asked for, has written the lines of that subject that came (the functions
\* Respond... of session.go), and has passed over others.
THEOREM SessionsTold == Spec => []SessInv
BY SessInit, SessNext, PTL DEF Spec

(***************************************************************************)
(* The property.                                                           *)
(***************************************************************************)
\* The names of requests and lines, made of the characters of C: subjects
\* and lines are as the API and the parsers take them, and no key is that of
\* two names.
NamesOf(C) ==
  /\ Dash \in C /\ Default \in Seq(C)
  /\ \A l \in Lines : LineNamed(C, l)
  /\ \A c \in Calls, q \in Requests : c[q].kind = "newsession" /\ c[q].decoded =>
       \/ Listens(c[q].subject) = {}
       \/ /\ WellNamed(C, c[q].subject)
          /\ \A l \in Lines : KeysTellApart(c[q].subject, l)

\* Every session shows the lines that a drain of its app or site is sent, and
\* passes over no such line.
THEOREM SessionsShowWhatIsDrained ==
  ASSUME NEW C, NamesOf(C)
  PROVE  Spec => []ShownAsDrained
<1>1. SessInv => ShownAsDrained
  <2> SUFFICES ASSUME SessInv, NEW q \in Requests
               PROVE  /\ \A i \in DOMAIN shown[q] : DrainedBy(subject[q], shown[q][i])
                      /\ \A l \in passed[q] : ~DrainedBy(subject[q], l)
    BY DEF ShownAsDrained
  <2>1. ReaderTold(q)  BY DEF SessInv
  <2>2. CASE loop[q].at = "off"
    BY <2>1, <2>2 DEF ReaderTold
  <2>3. CASE loop[q].at # "off"
    <3>1. Asked(subject[q])  BY <2>1, <2>3 DEF ReaderTold
    <3>2. CASE Listens(subject[q]) = {}
      BY <2>1, <3>2 DEF ReaderTold, Own, Other, Hears
    <3>3. CASE Listens(subject[q]) # {}
      <4>1. /\ WellNamed(C, subject[q])
            /\ \A l \in Lines : KeysTellApart(subject[q], l) /\ LineNamed(C, l)
            /\ Dash \in C /\ Default \in Seq(C)
        BY <3>1, <3>3 DEF Asked, NamesOf
      <4>2. \A l \in Lines : Hears(subject[q], l) => (Shows(subject[q], l) <=> DrainedBy(subject[q], l))
        BY <4>1, ShownIsDrained
      <4> QED  BY <2>1, <4>2 DEF ReaderTold, Own, Other
    <3> QED  BY <3>2, <3>3
  <2> QED  BY <2>2, <2>3
<1> QED  BY <1>1, SessionsTold, PTL

\* A drain is found by GetLogDrain under the key it was created with: the name
\* of a site, or that of an app and a space, taken apart at its first dash.
THEOREM DrainHasItsKey ==
  ASSUME NEW C, Dash \in C, NEW c, c.key \in Seq(C), Indexed(c), NEW id
  PROVE  KeyMatches(c.key, RouteOf(id, Subject(c)))
<1>1. CASE c.isSite  BY <1>1 DEF KeyMatches, RouteOf, Subject
<1>2. CASE ~c.isSite
  <2>1. SplitName(c.key).app \o <<Dash>> \o SplitName(c.key).space = c.key
    BY <1>2, KeysRoundTrip DEF Indexed
  <2> QED  BY <1>2, <2>1 DEF KeyMatches, RouteOf, Subject
<1> QED  BY <1>1, <1>2
=============================================================================
