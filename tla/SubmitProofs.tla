---------------------------- MODULE SubmitProofs ----------------------------
(***************************************************************************)
(* Proofs about LmsInterface, for any number of web workers, submissions,  *)
(* (user, module) pairs and failures half way.                             *)
(***************************************************************************)
EXTENDS LmsInterface, FiniteSetTheorems, TLAPS

(* gunicorn starts a fixed number of workers. *)
FinitelyManyWorkers == IsFiniteSet(WebWorkers)

(* Web workers between the invalidation and the insert of a submission. *)
Places(col) == {w \in WebWorkers : submitter[w] = "invalidated" /\ Truncated[request[w].url] = col}

RequestsServed == \A w \in WebWorkers : submitter[w] # "idle" => request[w] \in Request

(* The column holds what it has room for of the URL in the header. *)
RowsNamed == \A s \in DOMAIN table : table[s].lms_callback_url = Truncated[callback[s]]

(* Each unretired row of a pair, and each that is about to be inserted, takes *)
(* the place of a web worker of its own.                                     *)
PlacesKept ==
  /\ IsFiniteSet(DOMAIN table)
  /\ \A col \in Urls :
       Cardinality(Alive(col)) + Cardinality(Places(col)) <= Cardinality(WebWorkers)

SubmitInv == SubmitTypeOK /\ RequestsServed /\ RowsNamed /\ LatestSurvives /\ PlacesKept

-----------------------------------------------------------------------------
LEMMA Finite ==
  ASSUME FinitelyManyWorkers, PlacesKept, NEW col
  PROVE  /\ IsFiniteSet(Alive(col)) /\ Cardinality(Alive(col)) \in Nat
         /\ IsFiniteSet(Places(col)) /\ Cardinality(Places(col)) \in Nat
         /\ Cardinality(WebWorkers) \in Nat
         /\ Cardinality(Places(col)) <= Cardinality(WebWorkers)
<1>1. Alive(col) \in SUBSET DOMAIN table /\ Places(col) \in SUBSET WebWorkers
  BY DEF Alive, Sharing, Places
<1> QED
  BY <1>1, FS_Subset, FS_CardinalityType DEF FinitelyManyWorkers, PlacesKept

LEMMA InitSubmitInv ==
  ASSUME FinitelyManyWorkers, Init
  PROVE  SubmitInv
<1>1. DOMAIN table = {} /\ DOMAIN callback = {}
  BY DEF Init, SubmitInit
<1>2. SubmitTypeOK
  BY <1>1 DEF Init, SubmitInit, SubmitTypeOK, TableTypeOK
<1>3. RequestsServed /\ RowsNamed /\ LatestSurvives
  BY <1>1 DEF Init, SubmitInit, RequestsServed, RowsNamed, LatestSurvives, Sharing
<1>4. PlacesKept
  <2>1. \A col \in Urls : Alive(col) = {} /\ Places(col) = {}
    BY <1>1 DEF Alive, Sharing, Places, Init, SubmitInit
  <2>2. IsFiniteSet(DOMAIN table) /\ Cardinality({}) = 0
    BY <1>1, FS_EmptySet
  <2>3. Cardinality(WebWorkers) \in Nat
    BY FS_CardinalityType DEF FinitelyManyWorkers
  <2> QED
    BY <2>1, <2>2, <2>3 DEF PlacesKept
<1> QED
  BY <1>2, <1>3, <1>4 DEF SubmitInv

-----------------------------------------------------------------------------
LEMMA InvalidateKeeps ==
  ASSUME FinitelyManyWorkers, SubmitInv, NEW w \in WebWorkers, Invalidate(w)
  PROVE  SubmitInv'
<1>1. PICK url \in CallbackUrls, q \in Queues :
        /\ table' = [s \in DOMAIN table |->
                       [table[s] EXCEPT !.retired = @ \/ s \in Prior(Truncated[url])]]
        /\ Serves(w, "invalidated", [url |-> url, queue |-> q])
  BY DEF Invalidate
<1> DEFINE col == Truncated[url]
<1>2. /\ submitter' = [submitter EXCEPT ![w] = "invalidated"]
      /\ request' = [request EXCEPT ![w] = [url |-> url, queue |-> q]]
      /\ submitter[w] = "idle" /\ col \in Urls
      /\ UNCHANGED <<lock, now, faults, acked, callback, lost>>
  BY <1>1, TruncatedAssumption DEF Serves, Invalidate
<1>3. /\ DOMAIN table' = DOMAIN table
      /\ \A s \in DOMAIN table :
           /\ table'[s] \in Row /\ table'[s].id = s
           /\ table'[s].lms_callback_url = table[s].lms_callback_url
           /\ table[s].lms_callback_url # col => table'[s].retired = table[s].retired
           /\ table[s].lms_callback_url = col => table'[s].retired
  <2>1. ASSUME NEW s \in DOMAIN table
        PROVE  /\ table'[s] \in Row /\ table'[s].id = s
               /\ table'[s].lms_callback_url = table[s].lms_callback_url
               /\ table[s].lms_callback_url # col => table'[s].retired = table[s].retired
               /\ table[s].lms_callback_url = col => table'[s].retired
    <3> DEFINE ended == table[s].retired \/ s \in Prior(col)
    <3>1. table[s] \in Row /\ table[s].id = s
      BY DEF SubmitInv, SubmitTypeOK, TableTypeOK
    <3>2. /\ ended \in BOOLEAN
          /\ table[s].lms_callback_url # col => ended = table[s].retired
          /\ table[s].lms_callback_url = col => ended
      BY <3>1 DEF Prior, Row
    <3>3. table'[s] = [table[s] EXCEPT !.retired = ended]
      BY <1>1
    <3> HIDE DEF ended
    <3> QED
      BY <3>1, <3>2, <3>3 DEF Row
  <2> QED
    BY <1>1, <2>1
<1> HIDE DEF col
<1>4. /\ Alive(col)' = {}
      /\ \A c \in Urls : c # col => Alive(c)' = Alive(c)
      /\ \A c \in Urls : Sharing(c)' = Sharing(c)
  BY <1>3 DEF Alive, Sharing
<1>5. \A c \in Urls : c # col => Places(c)' = Places(c)
  BY <1>2 DEF Places, col, SubmitInv, SubmitTypeOK
<1>6. SubmitTypeOK'
  BY <1>2, <1>3 DEF SubmitInv, SubmitTypeOK, TableTypeOK, Request
<1>7. RequestsServed' /\ RowsNamed'
  BY <1>2, <1>3 DEF SubmitInv, SubmitTypeOK, RequestsServed, RowsNamed, Request
<1>8. LatestSurvives'
  <2>1. w \in WebWorkers /\ submitter'[w] = "invalidated" /\ Truncated[request'[w].url] = col
    BY <1>2 DEF SubmitInv, SubmitTypeOK, col
  <2>2. \A c \in Urls : c # col => (InFlight(c) => InFlight(c)')
    BY <1>2 DEF InFlight, SubmitInv, SubmitTypeOK
  <2> QED
    BY <1>2, <1>4, <2>1, <2>2 DEF LatestSurvives, InFlight, SubmitInv
<1>9. PlacesKept'
  <2>1. IsFiniteSet(DOMAIN table')
    BY <1>3 DEF SubmitInv, PlacesKept
  <2>2. Cardinality(Alive(col)') + Cardinality(Places(col)') <= Cardinality(WebWorkers)
    <3>1. Places(col)' \in SUBSET WebWorkers
      BY DEF Places
    <3>2. Cardinality(Places(col)') \in Nat /\ Cardinality(Places(col)') <= Cardinality(WebWorkers)
      BY <3>1, FS_Subset, FS_CardinalityType DEF FinitelyManyWorkers
    <3> QED
      BY <1>4, <3>2, FS_EmptySet
  <2> QED
    BY <1>4, <1>5, <2>1, <2>2 DEF SubmitInv, PlacesKept
<1> QED
  BY <1>6, <1>7, <1>8, <1>9 DEF SubmitInv

LEMMA InsertKeeps ==
  ASSUME FinitelyManyWorkers, SubmitInv, NEW w \in WebWorkers, Insert(w)
  PROVE  SubmitInv'
<1>a. submitter[w] = "invalidated" /\ request[w] \in Request
  BY DEF Insert, SubmitInv, RequestsServed
<1>b. PICK r \in Request : r = request[w]
  BY <1>a
<1> DEFINE col == Truncated[r.url]
<1>1. PICK s \in Ids \ DOMAIN callback :
        /\ table' = Saved(NewSubmission(s, r.queue, col, now))
        /\ callback' = [x \in DOMAIN callback \cup {s} |-> IF x = s THEN r.url ELSE callback[x]]
        /\ lost' = lost \ {col}
        /\ Serves(w, "inserted", r)
  BY <1>b DEF Insert
<1>2. /\ submitter' = [submitter EXCEPT ![w] = "inserted"]
      /\ request' = request
      /\ submitter[w] = "invalidated" /\ r.url \in CallbackUrls /\ r.queue \in Queues
      /\ col \in Urls /\ now \in Nat /\ s \notin DOMAIN table
      /\ UNCHANGED <<lock, now, faults, acked>>
  BY <1>1, <1>a, <1>b, TruncatedAssumption
     DEF Serves, Insert, SubmitInv, SubmitTypeOK, TableTypeOK, Request
<1>3. /\ DOMAIN table' = DOMAIN table \cup {s}
      /\ table'[s] \in Row /\ table'[s].id = s
      /\ table'[s].lms_callback_url = col /\ ~table'[s].retired
      /\ \A x \in DOMAIN table : table'[x] = table[x]
  <2> DEFINE row == NewSubmission(s, r.queue, col, now)
  <2>1. /\ row \in Row /\ row.id = s /\ row.lms_callback_url = col /\ ~row.retired
    BY <1>1, <1>2 DEF NewSubmission, Row, Times
  <2> HIDE DEF row
  <2>2. table' = Saved(row)
    BY <1>1 DEF row
  <2>3. /\ Stored(row) \in Row /\ Stored(row).id = s
        /\ Stored(row).lms_callback_url = col /\ ~Stored(row).retired
    BY <1>2, <2>1 DEF Stored, Row
  <2> QED
    BY <1>2, <2>1, <2>2, <2>3 DEF Saved
<1> HIDE DEF col
<1>4. /\ Alive(col)' = Alive(col) \cup {s} /\ s \notin Alive(col)
      /\ \A c \in Urls : c # col => Alive(c)' = Alive(c) /\ Sharing(c)' = Sharing(c)
  BY <1>2, <1>3 DEF Alive, Sharing
<1>5. /\ Places(col)' = Places(col) \ {w} /\ w \in Places(col)
      /\ \A c \in Urls : c # col => Places(c)' = Places(c)
  BY <1>2, <1>b DEF Places, col, SubmitInv, SubmitTypeOK
<1>6. SubmitTypeOK'
  BY <1>1, <1>2, <1>3 DEF SubmitInv, SubmitTypeOK, TableTypeOK
<1>7. RequestsServed'
  BY <1>2 DEF SubmitInv, SubmitTypeOK, RequestsServed
<1>8. RowsNamed'
  <2>1. callback'[s] = r.url /\ \A x \in DOMAIN table : callback'[x] = callback[x]
    BY <1>1, <1>2 DEF SubmitInv, SubmitTypeOK
  <2> QED
    BY <1>2, <1>3, <2>1 DEF SubmitInv, RowsNamed, col
<1>9. LatestSurvives'
  <2>1. Alive(col)' # {}
    BY <1>4
  <2>2. \A c \in Urls : c # col => (InFlight(c) <=> InFlight(c)')
    BY <1>5 DEF InFlight, Places
  <2> QED
    BY <1>1, <1>4, <2>1, <2>2 DEF SubmitInv, LatestSurvives
<1>10. PlacesKept'
  <2>1. IsFiniteSet(DOMAIN table')
    BY <1>3, FS_AddElement DEF SubmitInv, PlacesKept
  <2>2. Cardinality(Alive(col)') + Cardinality(Places(col)') <= Cardinality(WebWorkers)
    <3>1. /\ IsFiniteSet(Alive(col)) /\ Cardinality(Alive(col)) \in Nat
          /\ IsFiniteSet(Places(col)) /\ Cardinality(Places(col)) \in Nat
      BY Finite DEF SubmitInv
    <3>2. Cardinality(Alive(col)') = Cardinality(Alive(col)) + 1
      BY <1>4, <3>1, FS_AddElement
    <3>3. Cardinality(Places(col)') = Cardinality(Places(col)) - 1
      BY <1>5, <3>1, FS_RemoveElement
    <3>4. Cardinality(Alive(col)) + Cardinality(Places(col)) <= Cardinality(WebWorkers)
      BY <1>2 DEF SubmitInv, PlacesKept
    <3> QED
      BY <3>1, <3>2, <3>3, <3>4
  <2> QED
    BY <1>4, <1>5, <2>1, <2>2 DEF SubmitInv, PlacesKept
<1> QED
  BY <1>6, <1>7, <1>8, <1>9, <1>10 DEF SubmitInv

(* The request of a web worker ends, whether it was answered or failed. *)
LEMMA EndKeeps ==
  ASSUME FinitelyManyWorkers, SubmitInv, NEW w \in WebWorkers, Reply(w) \/ SubmitAborts(w)
  PROVE  SubmitInv'
<1>1. /\ submitter' = [submitter EXCEPT ![w] = "idle"]
      /\ request' = [request EXCEPT ![w] = NoRequest]
      /\ UNCHANGED <<table, lock, now, acked, callback>>
      /\ faults' \in Nat
  BY DEF Reply, SubmitAborts, Serves, Fault, tableVars, SubmitInv, SubmitTypeOK, TableTypeOK
<1>2. /\ lost \subseteq lost'
      /\ submitter[w] = "invalidated" => Truncated[request[w].url] \in lost'
      /\ lost' \subseteq Urls
  <2>1. CASE Reply(w)
    BY <2>1 DEF Reply, SubmitInv, SubmitTypeOK
  <2>2. CASE SubmitAborts(w)
    <3>1. submitter[w] = "invalidated" => Truncated[request[w].url] \in Urls
      BY TruncatedAssumption DEF SubmitInv, RequestsServed, Request
    <3> QED
      BY <2>2, <3>1 DEF SubmitAborts, FailedAfter, SubmitInv, SubmitTypeOK
  <2> QED
    BY <2>1, <2>2
<1>3. \A c \in Urls : Alive(c)' = Alive(c) /\ Sharing(c)' = Sharing(c)
  BY <1>1 DEF Alive, Sharing
<1>4. \A c \in Urls : Places(c)' = Places(c) \ {w}
  BY <1>1 DEF Places, SubmitInv, SubmitTypeOK
<1>5. SubmitTypeOK'
  BY <1>1, <1>2 DEF SubmitInv, SubmitTypeOK, TableTypeOK
<1>6. RequestsServed' /\ RowsNamed'
  BY <1>1 DEF SubmitInv, SubmitTypeOK, RequestsServed, RowsNamed
<1>7. LatestSurvives'
  <2>1. \A c \in Urls \ lost' : InFlight(c) => InFlight(c)'
    BY <1>1, <1>2 DEF InFlight, SubmitInv, SubmitTypeOK
  <2> QED
    BY <1>2, <1>3, <2>1 DEF SubmitInv, LatestSurvives
<1>8. PlacesKept'
  <2> SUFFICES ASSUME NEW c \in Urls
               PROVE  Cardinality(Alive(c)') + Cardinality(Places(c)') <= Cardinality(WebWorkers)
    BY <1>1 DEF SubmitInv, PlacesKept
  <2>1. /\ IsFiniteSet(Alive(c)) /\ Cardinality(Alive(c)) \in Nat
        /\ IsFiniteSet(Places(c)) /\ Cardinality(Places(c)) \in Nat
        /\ Cardinality(WebWorkers) \in Nat
    BY Finite DEF SubmitInv
  <2>2. Places(c)' \in SUBSET Places(c)
    BY <1>4
  <2>3. Cardinality(Places(c)') <= Cardinality(Places(c)) /\ Cardinality(Places(c)') \in Nat
    BY <2>1, <2>2, FS_Subset, FS_CardinalityType
  <2>4. Cardinality(Alive(c)) + Cardinality(Places(c)) <= Cardinality(WebWorkers)
    BY DEF SubmitInv, PlacesKept
  <2> QED
    BY <1>3, <2>1, <2>3, <2>4
<1> QED
  BY <1>5, <1>6, <1>7, <1>8 DEF SubmitInv

LEMMA NextSubmitInv ==
  ASSUME FinitelyManyWorkers, SubmitInv, [Next]_vars
  PROVE  SubmitInv'
<1>1. ASSUME UNCHANGED <<table, faults, acked, submitVars>>, now' \in Nat
      PROVE  SubmitInv'
  <2>1. SubmitTypeOK' /\ RequestsServed' /\ RowsNamed' /\ LatestSurvives'
    BY <1>1 DEF SubmitInv, SubmitTypeOK, TableTypeOK, RequestsServed, RowsNamed,
                LatestSurvives, Sharing, Alive, InFlight, submitVars
  <2>2. \A c \in Urls : Alive(c)' = Alive(c) /\ Places(c)' = Places(c)
    BY <1>1 DEF Alive, Sharing, Places, submitVars
  <2> QED
    BY <1>1, <2>1, <2>2 DEF SubmitInv, PlacesKept
<1>2. now \in Nat
  BY DEF SubmitInv, SubmitTypeOK, TableTypeOK
<1>3. ASSUME NEW w \in WebWorkers, Reject(w) PROVE SubmitInv'
  BY <1>1, <1>2, <1>3 DEF Reject, vars, tableVars
<1>4. ASSUME Tick \/ UNCHANGED vars PROVE SubmitInv'
  BY <1>1, <1>2, <1>4 DEF Tick, vars, tableVars
<1> QED
  BY <1>3, <1>4, InvalidateKeeps, InsertKeeps, EndKeeps DEF Next, Submit

-----------------------------------------------------------------------------
(* The inductive invariant of submit: no pair is without a row unless a     *)
(* submit is at work or failed, and rows and submits share the workers.      *)
THEOREM SubmitInvariant ==
  ASSUME FinitelyManyWorkers
  PROVE  Spec => []SubmitInv
<1>1. Init => SubmitInv
  BY InitSubmitInv
<1>2. SubmitInv /\ [Next]_vars => SubmitInv'
  BY NextSubmitInv
<1> QED
  BY <1>1, <1>2, PTL DEF Spec

(* Type correctness: requests carry known URLs, and each row has a header. *)
THEOREM SubmitTypes ==
  ASSUME FinitelyManyWorkers
  PROVE  Spec => []SubmitTypeOK
<1>1. SubmitInv => SubmitTypeOK
  BY DEF SubmitInv
<1> QED
  BY <1>1, SubmitInvariant, PTL

(* The latest submission of a (user, module) survives any overlap of its     *)
(* submits, unless one of them fails half way.                               *)
THEOREM LatestAlwaysSurvives ==
  ASSUME FinitelyManyWorkers
  PROVE  Spec => []LatestSurvives
<1>1. SubmitInv => LatestSurvives
  BY DEF SubmitInv
<1> QED
  BY <1>1, SubmitInvariant, PTL

(* No (user, module) ever has more unretired submissions than there are web  *)
(* workers: what _invalidate_prior_submissions is there to limit.            *)
THEOREM OverlapBounds ==
  ASSUME FinitelyManyWorkers
  PROVE  Spec => []BoundedByOverlap
<1>1. SubmitInv => BoundedByOverlap
  <2> SUFFICES ASSUME SubmitInv, NEW col \in Urls
               PROVE  Cardinality(Alive(col)) <= Cardinality(WebWorkers)
    BY DEF BoundedByOverlap
  <2>1. Cardinality(Alive(col)) + Cardinality(Places(col)) <= Cardinality(WebWorkers)
    BY DEF SubmitInv, PlacesKept
  <2> QED
    BY <2>1, Finite DEF SubmitInv
<1> QED
  BY <1>1, SubmitInvariant, PTL

(* URLs that the column does not tell apart are equal. *)
ShortUrls == \A url, other \in CallbackUrls : Truncated[url] = Truncated[other] => url = other

(* As long as the callback URLs fit the column, a submit retires rows of its *)
(* own (user, module) only.                                                  *)
THEOREM OwnPriorsOnly ==
  ASSUME FinitelyManyWorkers, ShortUrls
  PROVE  Spec => OnlyOwnPriorRetired
<1> DEFINE Own == \A w \in WebWorkers, s \in DOMAIN table :
                    table'[s] # table[s] /\ submitter'[w] # submitter[w]
                      => request'[w].url = callback[s]
<1>1. SubmitInv /\ [Next]_vars => [Own]_vars
  <2> SUFFICES ASSUME SubmitInv, [Next]_vars, NEW w \in WebWorkers, NEW s \in DOMAIN table,
                      table'[s] # table[s], submitter'[w] # submitter[w]
               PROVE  request'[w].url = callback[s]
    OBVIOUS
  <2>1. PICK v \in WebWorkers : Invalidate(v) \/ Insert(v)
    BY DEF Next, Submit, Reject, Reply, SubmitAborts, Tick, vars, tableVars
  <2>2. ASSUME Invalidate(v) PROVE request'[w].url = callback[s]
    <3>1. PICK url \in CallbackUrls, q \in Queues :
            /\ table' = [x \in DOMAIN table |->
                           [table[x] EXCEPT !.retired = @ \/ x \in Prior(Truncated[url])]]
            /\ Serves(v, "invalidated", [url |-> url, queue |-> q])
      BY <2>2 DEF Invalidate
    <3>2. v = w /\ request'[w].url = url
      BY <3>1 DEF Serves, SubmitInv, SubmitTypeOK
    <3>3. s \in Prior(Truncated[url])
      BY <3>1 DEF SubmitInv, SubmitTypeOK, TableTypeOK, Row
    <3>4. Truncated[callback[s]] = Truncated[url]
      BY <3>3 DEF Prior, SubmitInv, RowsNamed
    <3> QED
      BY <3>2, <3>4 DEF ShortUrls, SubmitInv, SubmitTypeOK
  <2>3. ASSUME Insert(v) PROVE FALSE
    <3>1. PICK x \in Ids \ DOMAIN callback :
            table' = Saved(NewSubmission(x, request[v].queue, Truncated[request[v].url], now))
      BY <2>3 DEF Insert
    <3> QED
      BY <3>1 DEF Saved, NewSubmission, SubmitInv, SubmitTypeOK
  <2> QED
    BY <2>1, <2>2, <2>3
<1>2. [][Own]_vars <=> OnlyOwnPriorRetired
  BY PTL DEF OnlyOwnPriorRetired
<1> QED
  BY <1>1, <1>2, SubmitInvariant, PTL DEF Spec
=============================================================================
