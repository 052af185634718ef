--------------------------- MODULE SessionsProofs ---------------------------
(***************************************************************************)
(* Proofs about Sessions, for any number of sessions, calls, objects and   *)
(* threads, and any assignment of resources to sessions.                   *)
(*                                                                         *)
(* That a closed session holds nothing rests on the order in close():      *)
(* registry, then disposed_, then the store.  CloserInv says what a thread *)
(* that closes sessions has in its hands, DisposedInv how far a disposed   *)
(* session has got, and HoldInv what such a session may still hold.        *)
(***************************************************************************)
EXTENDS Sessions, TLAPS

Working == {"disposing", "failing", "emptying", "dropping"}

CloserInv ==
  /\ \A k \in Closers : \A s \in batch[k] : s \in opened /\ s \notin registry
  /\ \A k, l \in Closers : \A s \in batch[k] : s \in batch[l] => k = l
  /\ \A k \in Closers : closePc[k] = "idle" => batch[k] = {}
  /\ \A k \in Closers : closePc[k] \in Working => current[k] \in batch[k]
  /\ \A k \in Closers : closePc[k] \notin Working => current[k] = None
  /\ \A k \in Closers : \A c \in abandoned[k] : closePc[k] = "failing" /\ Owner[c] = current[k]
  /\ \A k \in Closers : \A o \in doomed[k] : closePc[k] = "dropping" /\ Owner[o] = current[k]

DisposedInv ==
  /\ \A s \in disposed : s \notin registry
  /\ \A k \in Closers : \A s \in batch[k] :
       s \in disposed <=> current[k] = s /\ closePc[k] \in {"failing", "emptying", "dropping"}

HoldInv ==
  /\ \A c \in pending : Owner[c] \notin disposed
  /\ \A s \in stores : s \in disposed =>
       \E k \in Closers : current[k] = s /\ closePc[k] = "failing"
  /\ \A o \in objects : Owner[o] \in disposed =>
       \E k \in Closers : current[k] = Owner[o] /\ closePc[k] \in {"failing", "emptying"}
  /\ StoredObjectsAreReachable

CallInv ==
  /\ CallHasOneHolder
  /\ \A c \in Calls : replyPc[c] # "none" => callPc[c] = "posted"
  /\ \A c \in Calls : callPc[c] # "idle" => Owner[c] \in opened

ObjectInv ==
  /\ ObjectHasOneHolder
  /\ \A d \in Droppers : dropPc[d] # "idle" => dropObj[d] \in Objects /\ objPc[dropObj[d]] = "live"
  /\ \A o \in Objects : objPc[o] # "idle" => Owner[o] \in opened

IInv == TypeOK /\ CloserInv /\ DisposedInv /\ HoldInv /\ CallInv /\ ObjectInv

-----------------------------------------------------------------------------
(* The initial state and one lemma per action. *)

\* The initial state satisfies the invariant.
LEMMA InitIInv == Init => IInv
BY SessionsAssumption DEF Init, IInv, TypeOK, CloserInv, DisposedInv, HoldInv, CallInv,
   ObjectInv, Working, CallHasOneHolder, ObjectHasOneHolder, StoredObjectsAreReachable,
   Registered, Dropping

\* Open keeps the invariant.
LEMMA OpenKeeps ==
  ASSUME IInv, NEW s \in Sessions, Open(s)
  PROVE  IInv'
<1>1. TypeOK'
  BY SessionsAssumption DEF IInv, Resources, Open, callVars, objVars,
     closeVars, TypeOK
<1>2. CloserInv'
  BY SessionsAssumption DEF IInv, Resources, Open, callVars, objVars,
     closeVars, TypeOK, CloserInv, Working
<1>3. DisposedInv'
  BY SessionsAssumption DEF IInv, Resources, Open, callVars, objVars,
     closeVars, TypeOK, CloserInv, DisposedInv, Working
<1>4. HoldInv'
  BY SessionsAssumption DEF IInv, Resources, Open, callVars, objVars,
     closeVars, HoldInv, StoredObjectsAreReachable
<1>5. CallInv'
  BY SessionsAssumption DEF IInv, Resources, Open, callVars, objVars,
     closeVars, TypeOK, CallInv, CallHasOneHolder, CloserInv, Registered
<1>6. ObjectInv'
  BY SessionsAssumption DEF IInv, Resources, Open, callVars, objVars,
     closeVars, TypeOK, ObjectInv, ObjectHasOneHolder, CloserInv, Dropping
<1> QED
  BY <1>1, <1>2, <1>3, <1>4, <1>5, <1>6 DEF IInv

\* CallChecks keeps the invariant.
LEMMA CallChecksKeeps ==
  ASSUME IInv, NEW c \in Calls, CallChecks(c)
  PROVE  IInv'
<1>1. TypeOK'
  BY SessionsAssumption DEF IInv, Resources, CallChecks, regVars, objVars,
     closeVars, Alive, TypeOK
<1>2. CloserInv'
  BY SessionsAssumption DEF IInv, Resources, CallChecks, regVars, objVars,
     closeVars, Alive, TypeOK, CloserInv, Working
<1>3. DisposedInv'
  BY SessionsAssumption DEF IInv, Resources, CallChecks, regVars, objVars,
     closeVars, Alive, TypeOK, CloserInv, DisposedInv, Working
<1>4. HoldInv'
  BY SessionsAssumption DEF IInv, Resources, CallChecks, regVars, objVars,
     closeVars, Alive, HoldInv, StoredObjectsAreReachable
<1>5. CallInv'
  BY SessionsAssumption DEF IInv, Resources, CallChecks, regVars, objVars,
     closeVars, Alive, TypeOK, CallInv, CallHasOneHolder, CloserInv,
     Registered
<1>6. ObjectInv'
  BY SessionsAssumption DEF IInv, Resources, CallChecks, regVars, objVars,
     closeVars, Alive, TypeOK, ObjectInv, ObjectHasOneHolder, CloserInv,
     Dropping
<1> QED
  BY <1>1, <1>2, <1>3, <1>4, <1>5, <1>6 DEF IInv

\* CallRegisters keeps the invariant.
LEMMA CallRegistersKeeps ==
  ASSUME IInv, NEW c \in Calls, CallRegisters(c)
  PROVE  IInv'
<1>1. TypeOK'
  BY SessionsAssumption DEF IInv, Resources, CallRegisters, regVars, objVars,
     closeVars, Alive, TypeOK
<1>2. CloserInv'
  BY SessionsAssumption DEF IInv, Resources, CallRegisters, regVars, objVars,
     closeVars, Alive, TypeOK, CloserInv, Working
<1>3. DisposedInv'
  BY SessionsAssumption DEF IInv, Resources, CallRegisters, regVars, objVars,
     closeVars, Alive, TypeOK, CloserInv, DisposedInv, Working
<1>4. HoldInv'
  BY SessionsAssumption DEF IInv, Resources, CallRegisters, regVars, objVars,
     closeVars, Alive, TypeOK, CloserInv, DisposedInv, HoldInv,
     StoredObjectsAreReachable, Working
<1>5. CallInv'
  BY SessionsAssumption DEF IInv, Resources, CallRegisters, regVars, objVars,
     closeVars, Alive, TypeOK, CallInv, CallHasOneHolder, CloserInv,
     Registered
<1>6. ObjectInv'
  BY SessionsAssumption DEF IInv, Resources, CallRegisters, regVars, objVars,
     closeVars, Alive, TypeOK, ObjectInv, ObjectHasOneHolder, CloserInv,
     Dropping
<1> QED
  BY <1>1, <1>2, <1>3, <1>4, <1>5, <1>6 DEF IInv

\* CallPosts keeps the invariant.
LEMMA CallPostsKeeps ==
  ASSUME IInv, NEW c \in Calls, CallPosts(c)
  PROVE  IInv'
<1>1. TypeOK'
  BY SessionsAssumption DEF IInv, Resources, CallPosts, regVars, objVars,
     closeVars, Alive, TypeOK
<1>2. CloserInv'
  BY SessionsAssumption DEF IInv, Resources, CallPosts, regVars, objVars,
     closeVars, Alive, TypeOK, CloserInv, Working
<1>3. DisposedInv'
  BY SessionsAssumption DEF IInv, Resources, CallPosts, regVars, objVars,
     closeVars, Alive, TypeOK, CloserInv, DisposedInv, Working
<1>4. HoldInv'
  BY SessionsAssumption DEF IInv, Resources, CallPosts, regVars, objVars,
     closeVars, Alive, HoldInv, StoredObjectsAreReachable
<1>5. CallInv'
  BY SessionsAssumption DEF IInv, Resources, CallPosts, regVars, objVars,
     closeVars, Alive, TypeOK, CallInv, CallHasOneHolder, CloserInv,
     Registered
<1>6. ObjectInv'
  BY SessionsAssumption DEF IInv, Resources, CallPosts, regVars, objVars,
     closeVars, Alive, TypeOK, ObjectInv, ObjectHasOneHolder, CloserInv,
     Dropping
<1> QED
  BY <1>1, <1>2, <1>3, <1>4, <1>5, <1>6 DEF IInv

\* ReplyLooks keeps the invariant.
LEMMA ReplyLooksKeeps ==
  ASSUME IInv, NEW c \in Calls, ReplyLooks(c)
  PROVE  IInv'
<1>1. TypeOK'
  BY SessionsAssumption DEF IInv, Resources, ReplyLooks, regVars, objVars,
     closeVars, TypeOK
<1>2. CloserInv'
  BY SessionsAssumption DEF IInv, Resources, ReplyLooks, regVars, objVars,
     closeVars, TypeOK, CloserInv, Working
<1>3. DisposedInv'
  BY SessionsAssumption DEF IInv, Resources, ReplyLooks, regVars, objVars,
     closeVars, TypeOK, CloserInv, DisposedInv, Working
<1>4. HoldInv'
  BY SessionsAssumption DEF IInv, Resources, ReplyLooks, regVars, objVars,
     closeVars, HoldInv, StoredObjectsAreReachable
<1>5. CallInv'
  BY SessionsAssumption DEF IInv, Resources, ReplyLooks, regVars, objVars,
     closeVars, TypeOK, CallInv, CallHasOneHolder, CloserInv, Registered
<1>6. ObjectInv'
  BY SessionsAssumption DEF IInv, Resources, ReplyLooks, regVars, objVars,
     closeVars, TypeOK, ObjectInv, ObjectHasOneHolder, CloserInv, Dropping
<1> QED
  BY <1>1, <1>2, <1>3, <1>4, <1>5, <1>6 DEF IInv

\* ReplyTakes keeps the invariant.
LEMMA ReplyTakesKeeps ==
  ASSUME IInv, NEW c \in Calls, ReplyTakes(c)
  PROVE  IInv'
<1>1. TypeOK'
  BY SessionsAssumption DEF IInv, Resources, ReplyTakes, regVars, objVars,
     closeVars, TypeOK
<1>2. CloserInv'
  BY SessionsAssumption DEF IInv, Resources, ReplyTakes, regVars, objVars,
     closeVars, TypeOK, CloserInv, Working
<1>3. DisposedInv'
  BY SessionsAssumption DEF IInv, Resources, ReplyTakes, regVars, objVars,
     closeVars, TypeOK, CloserInv, DisposedInv, Working
<1>4. HoldInv'
  BY SessionsAssumption DEF IInv, Resources, ReplyTakes, regVars, objVars,
     closeVars, HoldInv, StoredObjectsAreReachable
<1>5. CallInv'
  BY SessionsAssumption DEF IInv, Resources, ReplyTakes, regVars, objVars,
     closeVars, TypeOK, CallInv, CallHasOneHolder, CloserInv, Registered
<1>6. ObjectInv'
  BY SessionsAssumption DEF IInv, Resources, ReplyTakes, regVars, objVars,
     closeVars, TypeOK, ObjectInv, ObjectHasOneHolder, CloserInv, Dropping
<1> QED
  BY <1>1, <1>2, <1>3, <1>4, <1>5, <1>6 DEF IInv

\* ReplySends keeps the invariant.
LEMMA ReplySendsKeeps ==
  ASSUME IInv, NEW c \in Calls, ReplySends(c)
  PROVE  IInv'
<1>1. TypeOK'
  BY SessionsAssumption DEF IInv, Resources, ReplySends, regVars, objVars,
     closeVars, TypeOK, CallInv, ObjectInv, CloserInv, CallHasOneHolder,
     ObjectHasOneHolder, Dropping, Registered
<1>2. CloserInv'
  BY SessionsAssumption DEF IInv, Resources, ReplySends, regVars, objVars,
     closeVars, TypeOK, CloserInv, Working
<1>3. DisposedInv'
  BY SessionsAssumption DEF IInv, Resources, ReplySends, regVars, objVars,
     closeVars, TypeOK, CloserInv, DisposedInv, Working
<1>4. HoldInv'
  BY SessionsAssumption DEF IInv, Resources, ReplySends, regVars, objVars,
     closeVars, HoldInv, StoredObjectsAreReachable
<1>5. CallInv'
  BY SessionsAssumption DEF IInv, Resources, ReplySends, regVars, objVars,
     closeVars, TypeOK, CallInv, CallHasOneHolder, CloserInv, Registered
<1>6. ObjectInv'
  BY SessionsAssumption DEF IInv, Resources, ReplySends, regVars, objVars,
     closeVars, TypeOK, ObjectInv, ObjectHasOneHolder, CloserInv, Dropping
<1> QED
  BY <1>1, <1>2, <1>3, <1>4, <1>5, <1>6 DEF IInv

\* InsertLooks keeps the invariant.
LEMMA InsertLooksKeeps ==
  ASSUME IInv, NEW o \in Objects, InsertLooks(o)
  PROVE  IInv'
<1>1. TypeOK'
  BY SessionsAssumption DEF IInv, Resources, InsertLooks, regVars, callVars,
     closeVars, TypeOK
<1>2. CloserInv'
  BY SessionsAssumption DEF IInv, Resources, InsertLooks, regVars, callVars,
     closeVars, TypeOK, CloserInv, Working
<1>3. DisposedInv'
  BY SessionsAssumption DEF IInv, Resources, InsertLooks, regVars, callVars,
     closeVars, TypeOK, CloserInv, DisposedInv, Working
<1>4. HoldInv'
  BY SessionsAssumption DEF IInv, Resources, InsertLooks, regVars, callVars,
     closeVars, HoldInv, StoredObjectsAreReachable
<1>5. CallInv'
  BY SessionsAssumption DEF IInv, Resources, InsertLooks, regVars, callVars,
     closeVars, TypeOK, CallInv, CallHasOneHolder, CloserInv, Registered
<1>6. ObjectInv'
  BY SessionsAssumption DEF IInv, Resources, InsertLooks, regVars, callVars,
     closeVars, TypeOK, ObjectInv, ObjectHasOneHolder, CloserInv, Dropping
<1> QED
  BY <1>1, <1>2, <1>3, <1>4, <1>5, <1>6 DEF IInv

\* Insert keeps the invariant.
LEMMA InsertKeeps ==
  ASSUME IInv, NEW o \in Objects, Insert(o)
  PROVE  IInv'
<1>1. TypeOK'
  BY SessionsAssumption DEF IInv, Resources, Insert, callVars, closeVars,
     Alive, TypeOK
<1>2. CloserInv'
  BY SessionsAssumption DEF IInv, Resources, Insert, callVars, closeVars,
     Alive, TypeOK, CloserInv, Working
<1>3. DisposedInv'
  BY SessionsAssumption DEF IInv, Resources, Insert, callVars, closeVars,
     Alive, TypeOK, CloserInv, DisposedInv, Working
<1>4. HoldInv'
  BY SessionsAssumption DEF IInv, Resources, Insert, callVars, closeVars,
     Alive, TypeOK, CloserInv, DisposedInv, HoldInv,
     StoredObjectsAreReachable, Working
<1>5. CallInv'
  BY SessionsAssumption DEF IInv, Resources, Insert, callVars, closeVars,
     Alive, TypeOK, CallInv, CallHasOneHolder, CloserInv, Registered
<1>6. ObjectInv'
  BY SessionsAssumption DEF IInv, Resources, Insert, callVars, closeVars,
     Alive, TypeOK, ObjectInv, ObjectHasOneHolder, CloserInv, Dropping
<1> QED
  BY <1>1, <1>2, <1>3, <1>4, <1>5, <1>6 DEF IInv

\* DropLooks keeps the invariant.
LEMMA DropLooksKeeps ==
  ASSUME IInv, NEW d \in Droppers, NEW o \in Objects, DropLooks(d, o)
  PROVE  IInv'
<1>1. TypeOK'
  BY SessionsAssumption DEF IInv, Resources, DropLooks, regVars, callVars,
     closeVars, TypeOK
<1>2. CloserInv'
  BY SessionsAssumption DEF IInv, Resources, DropLooks, regVars, callVars,
     closeVars, TypeOK, CloserInv, Working
<1>3. DisposedInv'
  BY SessionsAssumption DEF IInv, Resources, DropLooks, regVars, callVars,
     closeVars, TypeOK, CloserInv, DisposedInv, Working
<1>4. HoldInv'
  BY SessionsAssumption DEF IInv, Resources, DropLooks, regVars, callVars,
     closeVars, HoldInv, StoredObjectsAreReachable
<1>5. CallInv'
  BY SessionsAssumption DEF IInv, Resources, DropLooks, regVars, callVars,
     closeVars, TypeOK, CallInv, CallHasOneHolder, CloserInv, Registered
<1>6. ObjectInv'
  BY SessionsAssumption DEF IInv, Resources, DropLooks, regVars, callVars,
     closeVars, TypeOK, ObjectInv, ObjectHasOneHolder, CloserInv, Dropping
<1> QED
  BY <1>1, <1>2, <1>3, <1>4, <1>5, <1>6 DEF IInv

\* DropTakes keeps the invariant.
LEMMA DropTakesKeeps ==
  ASSUME IInv, NEW d \in Droppers, DropTakes(d)
  PROVE  IInv'
<1>1. TypeOK'
  BY SessionsAssumption DEF IInv, Resources, DropTakes, regVars, callVars,
     closeVars, TypeOK
<1>2. CloserInv'
  BY SessionsAssumption DEF IInv, Resources, DropTakes, regVars, callVars,
     closeVars, TypeOK, CloserInv, Working
<1>3. DisposedInv'
  BY SessionsAssumption DEF IInv, Resources, DropTakes, regVars, callVars,
     closeVars, TypeOK, CloserInv, DisposedInv, Working
<1>4. HoldInv'
  BY SessionsAssumption DEF IInv, Resources, DropTakes, regVars, callVars,
     closeVars, TypeOK, CloserInv, DisposedInv, HoldInv,
     StoredObjectsAreReachable, Working
<1>5. CallInv'
  BY SessionsAssumption DEF IInv, Resources, DropTakes, regVars, callVars,
     closeVars, TypeOK, CallInv, CallHasOneHolder, CloserInv, Registered
<1>6. ObjectInv'
  BY SessionsAssumption DEF IInv, Resources, DropTakes, regVars, callVars,
     closeVars, TypeOK, ObjectInv, ObjectHasOneHolder, CloserInv, Dropping
<1> QED
  BY <1>1, <1>2, <1>3, <1>4, <1>5, <1>6 DEF IInv

\* DropCalls keeps the invariant.
LEMMA DropCallsKeeps ==
  ASSUME IInv, NEW d \in Droppers, DropCalls(d)
  PROVE  IInv'
<1>1. TypeOK'
  BY SessionsAssumption DEF IInv, Resources, DropCalls, regVars, callVars,
     closeVars, TypeOK, CallInv, ObjectInv, CloserInv, CallHasOneHolder,
     ObjectHasOneHolder, Dropping, Registered
<1>2. CloserInv'
  BY SessionsAssumption DEF IInv, Resources, DropCalls, regVars, callVars,
     closeVars, TypeOK, CloserInv, Working
<1>3. DisposedInv'
  BY SessionsAssumption DEF IInv, Resources, DropCalls, regVars, callVars,
     closeVars, TypeOK, CloserInv, DisposedInv, Working
<1>4. HoldInv'
  BY SessionsAssumption DEF IInv, Resources, DropCalls, regVars, callVars,
     closeVars, HoldInv, StoredObjectsAreReachable
<1>5. CallInv'
  BY SessionsAssumption DEF IInv, Resources, DropCalls, regVars, callVars,
     closeVars, TypeOK, CallInv, CallHasOneHolder, CloserInv, Registered
<1>6. ObjectInv'
  BY SessionsAssumption DEF IInv, Resources, DropCalls, regVars, callVars,
     closeVars, TypeOK, ObjectInv, ObjectHasOneHolder, CloserInv, Dropping
<1> QED
  BY <1>1, <1>2, <1>3, <1>4, <1>5, <1>6 DEF IInv

\* Take keeps the invariant.
LEMMA TakeKeeps ==
  ASSUME IInv, NEW k \in Closers, NEW S \in SUBSET Sessions, Take(k, S)
  PROVE  IInv'
<1>1. TypeOK'
  BY SessionsAssumption DEF IInv, Resources, Take, callVars, objVars, TypeOK
<1>2. CloserInv'
  BY SessionsAssumption DEF IInv, Resources, Take, callVars, objVars, TypeOK,
     CloserInv, Working
<1>3. DisposedInv'
  BY SessionsAssumption DEF IInv, Resources, Take, callVars, objVars, TypeOK,
     CloserInv, DisposedInv, Working
<1>4. HoldInv'
  <2> USE DEF Take
  <2>1. \A l \in Closers : closePc[l] \in {"failing", "emptying"} =>
           closePc'[l] = closePc[l] /\ current'[l] = current[l]
    BY DEF IInv, TypeOK
  <2>2. \A s \in stores : s \in disposed =>
          \E l \in Closers : current'[l] = s /\ closePc'[l] = "failing"
    BY <2>1 DEF IInv, HoldInv
  <2>3. \A o \in objects : Owner[o] \in disposed =>
          \E l \in Closers : current'[l] = Owner[o] /\ closePc'[l] \in {"failing", "emptying"}
    BY <2>1 DEF IInv, HoldInv
  <2>4. StoredObjectsAreReachable'
    BY <2>1 DEF IInv, HoldInv, StoredObjectsAreReachable
  <2> QED
    BY <2>2, <2>3, <2>4 DEF IInv, HoldInv
<1>5. CallInv'
  BY SessionsAssumption DEF IInv, Resources, Take, callVars, objVars, TypeOK,
     CallInv, CallHasOneHolder, CloserInv, Registered
<1>6. ObjectInv'
  BY SessionsAssumption DEF IInv, Resources, Take, callVars, objVars, TypeOK,
     ObjectInv, ObjectHasOneHolder, CloserInv, Dropping
<1> QED
  BY <1>1, <1>2, <1>3, <1>4, <1>5, <1>6 DEF IInv

\* Pick keeps the invariant.
LEMMA PickKeeps ==
  ASSUME IInv, NEW k \in Closers, Pick(k)
  PROVE  IInv'
<1>1. TypeOK'
  BY SessionsAssumption DEF IInv, Resources, Pick, regVars, callVars, objVars, TypeOK
<1>2. CloserInv'
  BY SessionsAssumption DEF IInv, Resources, Pick, regVars, callVars, objVars,
     TypeOK, CloserInv, Working
<1>3. DisposedInv'
  BY SessionsAssumption DEF IInv, Resources, Pick, regVars, callVars, objVars,
     TypeOK, CloserInv, DisposedInv, Working
<1>4. HoldInv'
  <2> USE DEF Pick, regVars
  <2>1. \A l \in Closers : closePc[l] \in {"failing", "emptying"} =>
           closePc'[l] = closePc[l] /\ current'[l] = current[l]
    BY DEF IInv, TypeOK
  <2>2. \A s \in stores : s \in disposed =>
          \E l \in Closers : current'[l] = s /\ closePc'[l] = "failing"
    BY <2>1 DEF IInv, HoldInv
  <2>3. \A o \in objects : Owner[o] \in disposed =>
          \E l \in Closers : current'[l] = Owner[o] /\ closePc'[l] \in {"failing", "emptying"}
    BY <2>1 DEF IInv, HoldInv
  <2>4. StoredObjectsAreReachable'
    BY <2>1 DEF IInv, HoldInv, StoredObjectsAreReachable
  <2> QED
    BY <2>2, <2>3, <2>4 DEF IInv, HoldInv
<1>5. CallInv'
  BY SessionsAssumption DEF IInv, Resources, Pick, regVars, callVars, objVars,
     TypeOK, CallInv, CallHasOneHolder, CloserInv, Registered
<1>6. ObjectInv'
  BY SessionsAssumption DEF IInv, Resources, Pick, regVars, callVars, objVars,
     TypeOK, ObjectInv, ObjectHasOneHolder, CloserInv, Dropping
<1> QED
  BY <1>1, <1>2, <1>3, <1>4, <1>5, <1>6 DEF IInv

\* Dispose keeps the invariant.
LEMMA DisposeKeeps ==
  ASSUME IInv, NEW k \in Closers, Dispose(k)
  PROVE  IInv'
<1>1. TypeOK'
  <2>1. current[k] \in opened
    BY DEF IInv, CloserInv, Dispose, Working
  <2> QED
    BY <2>1 DEF IInv, TypeOK, Dispose, callVars, objVars
<1>2. CloserInv'
  BY SessionsAssumption DEF IInv, Resources, Dispose, callVars, objVars,
     TypeOK, CloserInv, Working
<1>3. DisposedInv'
  BY SessionsAssumption DEF IInv, Resources, Dispose, callVars, objVars,
     TypeOK, CloserInv, DisposedInv, Working
<1>4. HoldInv'
  <2> USE DEF Dispose
  <2>1. current[k] \in batch[k] /\ current[k] \notin disposed /\ closePc'[k] = "failing"
    BY DEF IInv, TypeOK, CloserInv, DisposedInv, Working
  <2>2. \A l \in Closers : l # k => closePc'[l] = closePc[l]
    BY DEF IInv, TypeOK
  <2>3. \A c \in pending' : Owner[c] \notin disposed'
    BY DEF IInv, HoldInv
  <2>4. \A s \in stores : s \in disposed' =>
          \E l \in Closers : current[l] = s /\ closePc'[l] = "failing"
    BY <2>1, <2>2 DEF IInv, HoldInv
  <2>5. \A o \in objects : Owner[o] \in disposed' =>
          \E l \in Closers : current[l] = Owner[o] /\ closePc'[l] \in {"failing", "emptying"}
    BY <2>1, <2>2 DEF IInv, HoldInv
  <2>6. StoredObjectsAreReachable'
    BY <2>1, <2>2 DEF IInv, HoldInv, StoredObjectsAreReachable
  <2> QED
    BY <2>3, <2>4, <2>5, <2>6 DEF IInv, HoldInv
<1>5. CallInv'
  BY SessionsAssumption DEF IInv, Resources, Dispose, callVars, objVars,
     TypeOK, CallInv, CallHasOneHolder, CloserInv, Registered
<1>6. ObjectInv'
  BY SessionsAssumption DEF IInv, Resources, Dispose, callVars, objVars,
     TypeOK, ObjectInv, ObjectHasOneHolder, CloserInv, Dropping
<1> QED
  BY <1>1, <1>2, <1>3, <1>4, <1>5, <1>6 DEF IInv

\* FailOne keeps the invariant.
LEMMA FailOneKeeps ==
  ASSUME IInv, NEW k \in Closers, FailOne(k)
  PROVE  IInv'
<1>1. TypeOK'
  BY SessionsAssumption DEF IInv, Resources, FailOne, regVars, callVars,
     objVars, TypeOK, CallInv, ObjectInv, CloserInv, CallHasOneHolder,
     ObjectHasOneHolder, Dropping, Registered
<1>2. CloserInv'
  BY SessionsAssumption DEF IInv, Resources, FailOne, regVars, callVars,
     objVars, TypeOK, CloserInv, Working
<1>3. DisposedInv'
  BY SessionsAssumption DEF IInv, Resources, FailOne, regVars, callVars,
     objVars, TypeOK, CloserInv, DisposedInv, Working
<1>4. HoldInv'
  BY SessionsAssumption DEF IInv, Resources, FailOne, regVars, callVars,
     objVars, TypeOK, CloserInv, DisposedInv, HoldInv,
     StoredObjectsAreReachable, Working
<1>5. CallInv'
  BY SessionsAssumption DEF IInv, Resources, FailOne, regVars, callVars,
     objVars, TypeOK, CallInv, CallHasOneHolder, CloserInv, Registered
<1>6. ObjectInv'
  BY SessionsAssumption DEF IInv, Resources, FailOne, regVars, callVars,
     objVars, TypeOK, ObjectInv, ObjectHasOneHolder, CloserInv, Dropping
<1> QED
  BY <1>1, <1>2, <1>3, <1>4, <1>5, <1>6 DEF IInv

\* DetachStore keeps the invariant.
LEMMA DetachStoreKeeps ==
  ASSUME IInv, NEW k \in Closers, DetachStore(k)
  PROVE  IInv'
<1>1. TypeOK'
  BY SessionsAssumption DEF IInv, Resources, DetachStore, callVars, objVars, TypeOK
<1>2. CloserInv'
  BY SessionsAssumption DEF IInv, Resources, DetachStore, callVars, objVars,
     TypeOK, CloserInv, Working
<1>3. DisposedInv'
  BY SessionsAssumption DEF IInv, Resources, DetachStore, callVars, objVars,
     TypeOK, CloserInv, DisposedInv, Working
<1>4. HoldInv'
  BY SessionsAssumption DEF IInv, Resources, DetachStore, callVars, objVars,
     TypeOK, CloserInv, DisposedInv, HoldInv, StoredObjectsAreReachable,
     Working
<1>5. CallInv'
  BY SessionsAssumption DEF IInv, Resources, DetachStore, callVars, objVars,
     TypeOK, CallInv, CallHasOneHolder, CloserInv, Registered
<1>6. ObjectInv'
  BY SessionsAssumption DEF IInv, Resources, DetachStore, callVars, objVars,
     TypeOK, ObjectInv, ObjectHasOneHolder, CloserInv, Dropping
<1> QED
  BY <1>1, <1>2, <1>3, <1>4, <1>5, <1>6 DEF IInv

\* EmptyStore keeps the invariant.
LEMMA EmptyStoreKeeps ==
  ASSUME IInv, NEW k \in Closers, EmptyStore(k)
  PROVE  IInv'
<1>1. TypeOK'
  BY SessionsAssumption DEF IInv, Resources, EmptyStore, regVars, callVars,
     objVars, TypeOK
<1>2. CloserInv'
  BY SessionsAssumption DEF IInv, Resources, EmptyStore, regVars, callVars,
     objVars, TypeOK, CloserInv, Working
<1>3. DisposedInv'
  BY SessionsAssumption DEF IInv, Resources, EmptyStore, regVars, callVars,
     objVars, TypeOK, CloserInv, DisposedInv, Working
<1>4. HoldInv'
  <2> USE DEF EmptyStore, regVars
  <2>1. current[k] \in batch[k] /\ current[k] \in disposed
    BY DEF IInv, CloserInv, DisposedInv, Working
  <2>2. \A l \in Closers : l # k => closePc'[l] = closePc[l] /\ current'[l] = current[l]
    BY DEF IInv, TypeOK
  <2>3. \A s \in stores : s \in disposed =>
          \E l \in Closers : current'[l] = s /\ closePc'[l] = "failing"
    BY <2>2 DEF IInv, HoldInv
  <2>4. \A o \in objects' : Owner[o] \in disposed =>
          \E l \in Closers : current'[l] = Owner[o] /\ closePc'[l] \in {"failing", "emptying"}
    BY <2>2 DEF IInv, HoldInv
  <2>5. StoredObjectsAreReachable'
    BY <2>2 DEF IInv, HoldInv, StoredObjectsAreReachable
  <2> QED
    BY <2>3, <2>4, <2>5 DEF IInv, HoldInv
<1>5. CallInv'
  BY SessionsAssumption DEF IInv, Resources, EmptyStore, regVars, callVars,
     objVars, TypeOK, CallInv, CallHasOneHolder, CloserInv, Registered
<1>6. ObjectInv'
  BY SessionsAssumption DEF IInv, Resources, EmptyStore, regVars, callVars,
     objVars, TypeOK, ObjectInv, ObjectHasOneHolder, CloserInv, Dropping
<1> QED
  BY <1>1, <1>2, <1>3, <1>4, <1>5, <1>6 DEF IInv

\* DropOne keeps the invariant.
LEMMA DropOneKeeps ==
  ASSUME IInv, NEW k \in Closers, DropOne(k)
  PROVE  IInv'
<1>1. TypeOK'
  BY SessionsAssumption DEF IInv, Resources, DropOne, regVars, callVars,
     objVars, TypeOK, CallInv, ObjectInv, CloserInv, CallHasOneHolder,
     ObjectHasOneHolder, Dropping, Registered
<1>2. CloserInv'
  BY SessionsAssumption DEF IInv, Resources, DropOne, regVars, callVars,
     objVars, TypeOK, CloserInv, Working
<1>3. DisposedInv'
  BY SessionsAssumption DEF IInv, Resources, DropOne, regVars, callVars,
     objVars, TypeOK, CloserInv, DisposedInv, Working
<1>4. HoldInv'
  BY SessionsAssumption DEF IInv, Resources, DropOne, regVars, callVars,
     objVars, TypeOK, CloserInv, DisposedInv, HoldInv,
     StoredObjectsAreReachable, Working
<1>5. CallInv'
  BY SessionsAssumption DEF IInv, Resources, DropOne, regVars, callVars,
     objVars, TypeOK, CallInv, CallHasOneHolder, CloserInv, Registered
<1>6. ObjectInv'
  BY SessionsAssumption DEF IInv, Resources, DropOne, regVars, callVars,
     objVars, TypeOK, ObjectInv, ObjectHasOneHolder, CloserInv, Dropping
<1> QED
  BY <1>1, <1>2, <1>3, <1>4, <1>5, <1>6 DEF IInv

\* Finish keeps the invariant.
LEMMA FinishKeeps ==
  ASSUME IInv, NEW k \in Closers, Finish(k)
  PROVE  IInv'
<1>1. TypeOK'
  BY SessionsAssumption DEF IInv, Resources, Finish, regVars, callVars,
     objVars, TypeOK
<1>2. CloserInv'
  BY SessionsAssumption DEF IInv, Resources, Finish, regVars, callVars,
     objVars, TypeOK, CloserInv, Working
<1>3. DisposedInv'
  BY SessionsAssumption DEF IInv, Resources, Finish, regVars, callVars,
     objVars, TypeOK, CloserInv, DisposedInv, Working
<1>4. HoldInv'
  BY SessionsAssumption DEF IInv, Resources, Finish, regVars, callVars,
     objVars, TypeOK, CloserInv, DisposedInv, HoldInv,
     StoredObjectsAreReachable, Working
<1>5. CallInv'
  BY SessionsAssumption DEF IInv, Resources, Finish, regVars, callVars,
     objVars, TypeOK, CallInv, CallHasOneHolder, CloserInv, Registered
<1>6. ObjectInv'
  BY SessionsAssumption DEF IInv, Resources, Finish, regVars, callVars,
     objVars, TypeOK, ObjectInv, ObjectHasOneHolder, CloserInv, Dropping
<1> QED
  BY <1>1, <1>2, <1>3, <1>4, <1>5, <1>6 DEF IInv

\* The invariant is inductive.
LEMMA StepIInv == IInv /\ [Next]_vars => IInv'
<1> SUFFICES ASSUME IInv, [Next]_vars PROVE IInv'
  OBVIOUS
<1>1. CASE \E s \in Sessions : Open(s)
  BY <1>1, OpenKeeps
<1>2. CASE \E c \in Calls : CallStep(c) \/ ReplyStep(c)
  BY <1>2, CallChecksKeeps, CallRegistersKeeps, CallPostsKeeps, ReplyLooksKeeps, ReplyTakesKeeps,
     ReplySendsKeeps DEF CallStep, ReplyStep
<1>3. CASE \E o \in Objects : InsertStep(o) \/ \E d \in Droppers : DropLooks(d, o)
  BY <1>3, InsertLooksKeeps, InsertKeeps, DropLooksKeeps DEF InsertStep
<1>4. CASE \E d \in Droppers : DropStep(d)
  BY <1>4, DropTakesKeeps, DropCallsKeeps DEF DropStep
<1>5. CASE \E k \in Closers : Close(k) \/ CloseAll(k)
  <2>1. registry \subseteq Sessions
    BY DEF IInv, TypeOK
  <2>2. PICK k \in Closers, S \in SUBSET Sessions : Take(k, S)
    BY <1>5, <2>1 DEF Close, CloseAll
  <2> QED
    BY <2>2, TakeKeeps
<1>6. CASE \E k \in Closers : CloseStep(k)
  BY <1>6, PickKeeps, DisposeKeeps, FailOneKeeps, DetachStoreKeeps, EmptyStoreKeeps, DropOneKeeps,
     FinishKeeps DEF CloseStep
<1>7. CASE UNCHANGED vars
  BY <1>7 DEF vars, IInv, TypeOK, CloserInv, DisposedInv, HoldInv, CallInv, ObjectInv, Working,
     CallHasOneHolder, ObjectHasOneHolder, StoredObjectsAreReachable, Registered, Dropping
<1> QED
  BY <1>1, <1>2, <1>3, <1>4, <1>5, <1>6, <1>7 DEF Next

\* The inductive invariant of Sessions.
THEOREM SessionInvariant == Spec => []IInv
<1> QED
  BY InitIInv, StepIInv, PTL DEF Spec

-----------------------------------------------------------------------------
(* What follows from the invariant. *)

\* Types; no call is answered twice and no DropFn called twice.
THEOREM SessionTypes == Spec => []TypeOK
<1>1. IInv => TypeOK
  BY DEF IInv
<1> QED
  BY <1>1, SessionInvariant, PTL

\* complete_dart_fn and dispose() never both answer a call, and never neither:
\* an unanswered call is in exactly one place.
THEOREM EveryCallHasOneHolder == Spec => []CallHasOneHolder
<1>1. IInv => CallHasOneHolder
  BY DEF IInv, CallInv
<1> QED
  BY <1>1, SessionInvariant, PTL

\* drop() and drop_all() never both run the DropFn of an object, and an object
\* whose DropFn has not run is in exactly one place.
THEOREM EveryObjectHasOneHolder == Spec => []ObjectHasOneHolder
<1>1. IInv => ObjectHasOneHolder
  BY DEF IInv, ObjectInv
<1> QED
  BY <1>1, SessionInvariant, PTL

\* Once a session is closed no reply is pending, no store and no object is
\* registered for it.
THEOREM ClosedSessionsAreEmpty == Spec => []NothingLeftBehind
<1>1. IInv => NothingLeftBehind
  <2> SUFFICES ASSUME IInv, NEW s \in Sessions, Closed(s)
               PROVE  /\ s \notin stores
                      /\ \A c \in pending : Owner[c] # s
                      /\ \A o \in objects : Owner[o] # s
    BY DEF NothingLeftBehind
  <2>1. \A k \in Closers : closePc[k] \in {"failing", "emptying"} => current[k] # s
    BY DEF Closed, IInv, CloserInv, Working
  <2> QED
    BY <2>1 DEF Closed, IInv, HoldInv
<1> QED
  BY <1>1, SessionInvariant, PTL

\* The objects of a store can be reached until close() takes the store away.
THEOREM ObjectsStayReachable == Spec => []StoredObjectsAreReachable
<1>1. IInv => StoredObjectsAreReachable
  BY DEF IInv, HoldInv
<1> QED
  BY <1>1, SessionInvariant, PTL

-----------------------------------------------------------------------------
(* Refinement: every step is a step of OwnedResources or leaves it as it is. *)

\* The initial states map to the initial states of OwnedResources.
LEMMA InitRefines == Init => Ownership!Init
BY SessionsAssumption DEF Init, Ownership!Init, SessionState, ResourceState, CallState, ObjectState, Resources

\* A resource outside the set that is let go keeps its state, and so does its session.
LEMMA SameStates ==
  /\ UNCHANGED <<registry, opened, disposed, batch>> =>
       \A s \in Sessions : SessionState(s)' = SessionState(s)
  /\ \A c \in Calls :
       UNCHANGED callPc /\ (c \in pending' <=> c \in pending) => CallState(c)' = CallState(c)
  /\ \A o \in Objects :
       UNCHANGED objPc /\ (o \in objects' <=> o \in objects) => ObjectState(o)' = ObjectState(o)
BY DEF SessionState, Closed, CallState, ObjectState

\* A call that is in dart_fn_pending_ is held, an object in a store as well.
LEMMA HeldStates ==
  ASSUME IInv
  PROVE  /\ \A c \in Calls : CallState(c) = "held" <=> c \in pending
         /\ \A o \in Objects : ObjectState(o) = "held" <=> o \in objects
BY DEF IInv, CallInv, ObjectInv, CallHasOneHolder, ObjectHasOneHolder, Registered, CallState, ObjectState, TypeOK

\* Steps of a call and of its reply.
LEMMA CallStepRefines ==
  ASSUME IInv, NEW c \in Calls, CallStep(c) \/ ReplyStep(c)
  PROVE  Ownership!Next \/ UNCHANGED Ownership!absVars
<1>1. /\ UNCHANGED <<registry, opened, disposed, batch, objPc, objects>>
      /\ \A b \in Calls : b # c => callPc'[b] = callPc[b] /\ (b \in pending' <=> b \in pending)
  BY DEF IInv, TypeOK, CallStep, ReplyStep, CallChecks, CallRegisters, CallPosts, ReplyLooks,
     ReplyTakes, ReplySends, regVars, objVars, closeVars, callVars
<1>2. \A s \in Sessions : SessionState(s)' = SessionState(s)
  BY <1>1, SameStates
<1>3. \A r \in Resources : r # c => ResourceState(r)' = ResourceState(r)
  BY <1>1 DEF ResourceState, CallState, ObjectState
<1>4. c \in Resources /\ Owner[c] \in Sessions
  BY SessionsAssumption DEF Resources
<1>5. \/ CallState(c)' = CallState(c)
      \/ CallState(c) = "none" /\ CallState(c)' = "refused"
         /\ SessionState(Owner[c]) \notin {"new", "open"}
      \/ CallState(c) = "none" /\ CallState(c)' = "held"
         /\ SessionState(Owner[c]) \in {"open", "closing"}
      \/ CallState(c) = "held" /\ CallState(c)' = "released"
  <2>1. CASE CallChecks(c)
    BY <2>1 DEF CallChecks, Alive, CallState, SessionState, IInv, TypeOK, DisposedInv
  <2>2. CASE CallRegisters(c)
    BY <2>2, <1>4 DEF CallRegisters, Alive, CallState, SessionState, IInv, TypeOK, CallInv, DisposedInv
  <2>3. CASE CallPosts(c)
    BY <2>3 DEF CallPosts, CallState, IInv, TypeOK
  <2>4. CASE ReplyLooks(c) \/ ReplySends(c)
    BY <2>4 DEF ReplyLooks, ReplySends, CallState
  <2>5. CASE ReplyTakes(c)
    BY <2>5, HeldStates DEF ReplyTakes, CallState, IInv, CallInv
  <2> QED
    BY <2>1, <2>2, <2>3, <2>4, <2>5 DEF CallStep, ReplyStep
<1>6. CASE CallState(c)' = CallState(c)
  BY <1>2, <1>3, <1>6 DEF Ownership!absVars, ResourceState
<1>7. CASE CallState(c) = "none" /\ CallState(c)' = "refused" /\ SessionState(Owner[c]) \notin {"new", "open"}
  <2>1. Ownership!Refuse(c)
    BY <1>2, <1>3, <1>4, <1>7 DEF Ownership!Refuse, ResourceState
  <2> QED
    BY <2>1, <1>4 DEF Ownership!Next
<1>8. CASE CallState(c) = "none" /\ CallState(c)' = "held" /\ SessionState(Owner[c]) \in {"open", "closing"}
  <2>1. Ownership!Register(c)
    BY <1>2, <1>3, <1>4, <1>8 DEF Ownership!Register, ResourceState
  <2> QED
    BY <2>1, <1>4 DEF Ownership!Next
<1>9. CASE CallState(c) = "held" /\ CallState(c)' = "released"
  <2>1. {c} \in SUBSET Ownership!Held(Owner[c])
    BY <1>4, <1>9 DEF Ownership!Held, ResourceState
  <2>2. Ownership!LetGo({c})
    BY <1>3, <1>4, <1>9 DEF Ownership!LetGo, ResourceState
  <2>3. Ownership!Release(Owner[c])
    BY <2>1, <2>2, <1>2 DEF Ownership!Release
  <2> QED
    BY <2>3, <1>4 DEF Ownership!Next
<1> QED
  BY <1>5, <1>6, <1>7, <1>8, <1>9

\* Steps of an object and of a thread that drops it.
LEMMA ObjectStepRefines ==
  ASSUME IInv, NEW o \in Objects,
         \/ InsertStep(o)
         \/ \E d \in Droppers : DropStep(d) /\ dropObj[d] = o
  PROVE  Ownership!Next \/ UNCHANGED Ownership!absVars
<1>1. /\ UNCHANGED <<registry, opened, disposed, batch, callPc, pending>>
      /\ \A b \in Objects : b # o => objPc'[b] = objPc[b] /\ (b \in objects' <=> b \in objects)
  BY DEF IInv, TypeOK, InsertStep, DropStep, InsertLooks, Insert, DropTakes, DropCalls, regVars,
     objVars, closeVars, callVars
<1>2. \A s \in Sessions : SessionState(s)' = SessionState(s)
  BY <1>1, SameStates
<1>3. \A r \in Resources : r # o => ResourceState(r)' = ResourceState(r)
  BY <1>1 DEF Resources, ResourceState, CallState, ObjectState
<1>4. o \in Resources /\ o \notin Calls /\ Owner[o] \in Sessions
  BY SessionsAssumption DEF Resources
<1>5. \/ ObjectState(o)' = ObjectState(o)
      \/ ObjectState(o) = "none" /\ ObjectState(o)' = "refused"
         /\ SessionState(Owner[o]) \notin {"new", "open"}
      \/ ObjectState(o) = "none" /\ ObjectState(o)' = "held"
         /\ SessionState(Owner[o]) \in {"open", "closing"}
      \/ ObjectState(o) = "held" /\ ObjectState(o)' = "released"
  <2>1. CASE InsertLooks(o)
    BY <2>1 DEF InsertLooks, ObjectState, SessionState, IInv, TypeOK
  <2>2. CASE Insert(o)
    BY <2>2, <1>4 DEF Insert, Alive, ObjectState, SessionState, IInv, TypeOK, ObjectInv, DisposedInv
  <2>3. ASSUME NEW d \in Droppers, DropTakes(d), dropObj[d] = o
        PROVE  ObjectState(o)' = ObjectState(o) \/ (ObjectState(o) = "held" /\ ObjectState(o)' = "released")
    BY <2>3, HeldStates DEF DropTakes, ObjectState, IInv, ObjectInv
  <2>4. ASSUME NEW d \in Droppers, DropCalls(d) PROVE ObjectState(o)' = ObjectState(o)
    BY <2>4 DEF DropCalls, ObjectState
  <2> QED
    BY <2>1, <2>2, <2>3, <2>4 DEF InsertStep, DropStep
<1>6. CASE ObjectState(o)' = ObjectState(o)
  BY <1>2, <1>3, <1>4, <1>6 DEF Ownership!absVars, ResourceState
<1>7. CASE ObjectState(o) = "none" /\ ObjectState(o)' = "refused" /\ SessionState(Owner[o]) \notin {"new", "open"}
  <2>1. Ownership!Refuse(o)
    BY <1>2, <1>3, <1>4, <1>7 DEF Ownership!Refuse, ResourceState
  <2> QED
    BY <2>1, <1>4 DEF Ownership!Next
<1>8. CASE ObjectState(o) = "none" /\ ObjectState(o)' = "held" /\ SessionState(Owner[o]) \in {"open", "closing"}
  <2>1. Ownership!Register(o)
    BY <1>2, <1>3, <1>4, <1>8 DEF Ownership!Register, ResourceState
  <2> QED
    BY <2>1, <1>4 DEF Ownership!Next
<1>9. CASE ObjectState(o) = "held" /\ ObjectState(o)' = "released"
  <2>1. {o} \in SUBSET Ownership!Held(Owner[o])
    BY <1>4, <1>9 DEF Ownership!Held, ResourceState
  <2>2. Ownership!LetGo({o})
    BY <1>3, <1>4, <1>9 DEF Ownership!LetGo, ResourceState
  <2>3. Ownership!Release(Owner[o])
    BY <2>1, <2>2, <1>2 DEF Ownership!Release
  <2> QED
    BY <2>3, <1>4 DEF Ownership!Next
<1> QED
  BY <1>5, <1>6, <1>7, <1>8, <1>9

\* Taking sessions out of the registry begins their close.
LEMMA TakeRefines ==
  ASSUME IInv, NEW k \in Closers, NEW S \in SUBSET Sessions, Take(k, S)
  PROVE  Ownership!Next
<1>1. /\ S # {} /\ S \subseteq registry /\ registry' = registry \ S
      /\ UNCHANGED <<opened, disposed, callPc, pending, objPc, objects>>
      /\ batch' = [batch EXCEPT ![k] = S]
  BY DEF Take, callVars, objVars
<1>2. \A s \in S : SessionState(s) = "open" /\ SessionState(s)' = "closing"
  BY <1>1 DEF SessionState, IInv, TypeOK, DisposedInv
<1>3. \A s \in Sessions \ S : SessionState(s)' = SessionState(s)
  <2>1. batch[k] = {}
    BY DEF Take, IInv, CloserInv
  <2>2. \A s \in Sessions \ S : Closed(s)' = Closed(s)
    BY <1>1, <2>1 DEF Closed, IInv, TypeOK
  <2> QED
    BY <1>1, <2>2 DEF SessionState
<1>4. \A r \in Resources : ResourceState(r)' = ResourceState(r)
  BY <1>1 DEF ResourceState, CallState, ObjectState
<1>5. Ownership!BeginClose(S)
  BY <1>1, <1>2, <1>3, <1>4 DEF Ownership!BeginClose
<1> QED
  BY <1>5 DEF Ownership!Next

\* dispose() seals the session and lets go of its pending replies.
LEMMA DisposeRefines ==
  ASSUME IInv, NEW k \in Closers, Dispose(k)
  PROVE  Ownership!Next
<1>0. PICK s \in Sessions : s = current[k]
  BY DEF Dispose, IInv, TypeOK, CloserInv, Working
<1> DEFINE R == {c \in pending : Owner[c] = s}
<1>1. /\ disposed' = disposed \cup {s} /\ pending' = pending \ R
      /\ UNCHANGED <<registry, opened, batch, callPc, objPc, objects>>
  BY <1>0 DEF Dispose, callVars, objVars
<1>2. s \in Sessions /\ s \in batch[k] /\ s \in opened /\ s \notin registry /\ s \notin disposed
  BY <1>0 DEF Dispose, IInv, TypeOK, CloserInv, DisposedInv, Working
<1>3. SessionState(s) = "closing" /\ SessionState(s)' = "sealed"
  BY <1>1, <1>2 DEF SessionState, Closed
<1>4. \A t \in Sessions : t # s => SessionState(t)' = SessionState(t)
  BY <1>1 DEF SessionState, Closed
<1>5. R \in SUBSET Ownership!Held(s)
  BY HeldStates DEF Ownership!Held, ResourceState, Resources, IInv, TypeOK
<1>6. \A c \in R : CallState(c)' = "released"
  BY <1>1, HeldStates DEF CallState, IInv, TypeOK
<1>7. \A r \in Resources : r \notin R => ResourceState(r)' = ResourceState(r)
  BY <1>1 DEF ResourceState, CallState, ObjectState
<1>8. R \subseteq Calls
  BY DEF IInv, TypeOK
<1>9. Ownership!LetGo(R)
  BY <1>6, <1>7, <1>8 DEF Ownership!LetGo, ResourceState
<1>10. Ownership!Seal(s)
  BY <1>2, <1>3, <1>4, <1>5, <1>9 DEF Ownership!Seal
<1> QED
  BY <1>2, <1>10 DEF Ownership!Next

\* drop_all lets go of the objects of the session.
LEMMA EmptyStoreRefines ==
  ASSUME IInv, NEW k \in Closers, EmptyStore(k)
  PROVE  Ownership!Next \/ UNCHANGED Ownership!absVars
<1> DEFINE s == current[k]
           R == {o \in objects : Owner[o] = s}
<1>1. /\ objects' = objects \ R
      /\ UNCHANGED <<registry, opened, disposed, batch, callPc, objPc, pending>>
  BY DEF EmptyStore, callVars, objVars, regVars
<1>2. s \in Sessions
  BY DEF EmptyStore, IInv, TypeOK, CloserInv, Working
<1>3. \A t \in Sessions : SessionState(t)' = SessionState(t)
  BY <1>1, SameStates
<1>4. R \subseteq Objects /\ R \cap Calls = {}
  BY SessionsAssumption DEF IInv, TypeOK
<1>5. R \in SUBSET Ownership!Held(s)
  BY <1>4, HeldStates DEF Ownership!Held, ResourceState, Resources
<1>6. \A o \in R : ObjectState(o)' = "released"
  BY <1>1, <1>4, HeldStates DEF ObjectState
<1>7. \A r \in Resources : r \notin R => ResourceState(r)' = ResourceState(r)
  BY <1>1 DEF ResourceState, CallState, ObjectState
<1>8. CASE R = {}
  BY <1>3, <1>7, <1>8 DEF Ownership!absVars
<1>9. CASE R # {}
  <2>1. Ownership!LetGo(R)
    BY <1>4, <1>6, <1>7 DEF Ownership!LetGo, ResourceState
  <2>2. Ownership!Release(s)
    BY <1>3, <1>5, <1>9, <2>1 DEF Ownership!Release
  <2> QED
    BY <1>2, <2>2 DEF Ownership!Next
<1> QED
  BY <1>8, <1>9

\* A session whose close is finished holds nothing.
LEMMA FinishRefines ==
  ASSUME IInv, NEW k \in Closers, Finish(k)
  PROVE  Ownership!Next
<1>0. PICK s \in Sessions : s = current[k]
  BY DEF Finish, IInv, TypeOK, CloserInv, Working
<1>1. /\ batch' = [batch EXCEPT ![k] = @ \ {s}] /\ closePc[k] = "dropping"
      /\ UNCHANGED <<registry, opened, disposed, callPc, objPc, pending, objects>>
  BY <1>0 DEF Finish, callVars, objVars, regVars
<1>2. s \in Sessions /\ s \in batch[k] /\ s \in opened /\ s \notin registry /\ s \in disposed
  BY <1>0, <1>1 DEF IInv, TypeOK, CloserInv, DisposedInv, Working
<1>3. SessionState(s) = "sealed" /\ SessionState(s)' = "closed"
  BY <1>1, <1>2 DEF SessionState, Closed, IInv, TypeOK, CloserInv
<1>4. \A t \in Sessions : t # s => SessionState(t)' = SessionState(t)
  BY <1>1 DEF SessionState, Closed, IInv, TypeOK
<1>5. \A r \in Resources : ResourceState(r)' = ResourceState(r)
  BY <1>1 DEF ResourceState, CallState, ObjectState
<1>6. Ownership!Held(s) = {}
  <2>1. \A c \in pending : Owner[c] # s
    BY <1>2 DEF IInv, HoldInv
  <2>2. \A l \in Closers : closePc[l] \in {"failing", "emptying"} => current[l] # s
    BY <1>0, <1>1, <1>2 DEF IInv, CloserInv, Working
  <2>3. \A o \in objects : Owner[o] # s
    BY <1>2, <2>2 DEF IInv, HoldInv
  <2> QED
    BY <2>1, <2>3, HeldStates DEF Ownership!Held, ResourceState, Resources
<1>7. Ownership!EndClose(s)
  BY <1>2, <1>3, <1>4, <1>5, <1>6 DEF Ownership!EndClose
<1> QED
  BY <1>2, <1>7 DEF Ownership!Next

\* Every step maps to a step of OwnedResources or to a stutter.
LEMMA StepRefines == IInv /\ [Next]_vars => [Ownership!Next]_(Ownership!absVars)
<1> SUFFICES ASSUME IInv, [Next]_vars PROVE Ownership!Next \/ UNCHANGED Ownership!absVars
  OBVIOUS
<1>1. ASSUME NEW s \in Sessions, Open(s) PROVE Ownership!Next
  <2>1. /\ s \notin opened /\ opened' = opened \cup {s} /\ registry' = registry \cup {s}
        /\ UNCHANGED <<disposed, batch, callPc, pending, objPc, objects>>
    BY <1>1 DEF Open, callVars, objVars, closeVars
  <2>2. SessionState(s) = "new" /\ SessionState(s)' = "open"
    BY <2>1 DEF SessionState
  <2>3. \A t \in Sessions : t # s => SessionState(t)' = SessionState(t)
    BY <2>1 DEF SessionState, Closed
  <2>4. \A r \in Resources : ResourceState(r)' = ResourceState(r)
    BY <2>1 DEF ResourceState, CallState, ObjectState
  <2>5. Ownership!Open(s)
    BY <2>2, <2>3, <2>4 DEF Ownership!Open
  <2> QED
    BY <2>5 DEF Ownership!Next
<1>2. CASE \E c \in Calls : CallStep(c) \/ ReplyStep(c)
  BY <1>2, CallStepRefines
<1>3. CASE \E o \in Objects : InsertStep(o)
  BY <1>3, ObjectStepRefines
<1>4. CASE \E d \in Droppers : DropStep(d)
  <2>1. PICK d \in Droppers : DropStep(d)
    BY <1>4
  <2>2. dropObj[d] \in Objects
    BY <2>1 DEF DropStep, DropTakes, DropCalls, IInv, ObjectInv
  <2> QED
    BY <2>1, <2>2, ObjectStepRefines
<1>5. CASE \E k \in Closers : Close(k) \/ CloseAll(k)
  <2>1. registry \subseteq Sessions
    BY DEF IInv, TypeOK
  <2>2. PICK k \in Closers, S \in SUBSET Sessions : Take(k, S)
    BY <1>5, <2>1 DEF Close, CloseAll
  <2> QED
    BY <2>2, TakeRefines
<1>6. CASE \E k \in Closers : Dispose(k) \/ EmptyStore(k) \/ Finish(k)
  BY <1>6, DisposeRefines, EmptyStoreRefines, FinishRefines
<1>7. ASSUME UNCHANGED <<registry, opened, disposed, batch, callPc, pending, objPc, objects>>
      PROVE  UNCHANGED Ownership!absVars
  BY <1>7 DEF Ownership!absVars, SessionState, Closed, ResourceState, CallState, ObjectState
<1>8. CASE \E o \in Objects, d \in Droppers : DropLooks(d, o)
  BY <1>7, <1>8 DEF DropLooks, regVars, callVars, closeVars
<1>9. CASE \E k \in Closers : Pick(k) \/ FailOne(k) \/ DetachStore(k) \/ DropOne(k)
  BY <1>7, <1>9 DEF Pick, FailOne, DetachStore, DropOne, regVars, callVars, objVars
<1>10. CASE UNCHANGED vars
  BY <1>7, <1>10 DEF vars
<1> QED
  BY <1>1, <1>2, <1>3, <1>4, <1>5, <1>6, <1>8, <1>9, <1>10 DEF Next, CloseStep

\* Sessions, the pending replies and the object handles implement
\* OwnedResources: registration stops when a session is sealed, everything is
\* let go once, and a closed session holds nothing.
THEOREM SessionsImplementOwnedResources == Spec => IsOwnership
<1>1. Init => Ownership!Init
  BY InitRefines
<1>2. IInv /\ [Next]_vars => [Ownership!Next]_(Ownership!absVars)
  BY StepRefines
<1> QED
  BY <1>1, <1>2, SessionInvariant, PTL DEF Spec, IsOwnership, Ownership!Spec

-----------------------------------------------------------------------------
(* At rest.                                                                *)

\* Where a session, a call and a reply can end up: no session is lost on its
\* way out of the registry, a frame is withheld only from a session that is
\* disposed, and a reply is ignored only when somebody else answers the call.
AnswersInv ==
  /\ \A s \in opened : s \in registry \/ s \in disposed \/ \E k \in Closers : s \in batch[k]
  /\ \A c \in Calls : callPc[c] = "unposted" => Owner[c] \in disposed
  /\ \A c \in Calls : replyPc[c] = "sent" => sends[c] > 0
  /\ \A c \in Calls : replyPc[c] = "ignored" => c \notin pending \/ Owner[c] \notin registry

\* No thread is in the middle of a call, a reply, a drop or a close.
AtRest ==
  /\ \A c \in Calls : callPc[c] \notin {"checked", "registered"}
  /\ \A c \in Calls : replyPc[c] \notin {"found", "taken"}
  /\ \A c \in Calls : callPc[c] = "posted" => replyPc[c] # "none"
  /\ \A d \in Droppers : dropPc[d] # "taken"
  /\ \A k \in Closers : closePc[k] = "idle"

\* Then every registered call has been answered, also those whose frame or
\* reply came to a closed session, and every object of a session that is no
\* longer open has been dropped.
NobodyIsOwed ==
  AtRest =>
    /\ \A c \in Calls : Registered(c) => sends[c] = 1
    /\ \A o \in Objects : objPc[o] = "live" /\ Owner[o] \notin registry => drops[o] = 1

LEMMA AnswersStep ==
  ASSUME IInv, AnswersInv, [Next]_vars
  PROVE  AnswersInv'
<1> USE DEF regVars, callVars, objVars, closeVars
\* A step outside the calls that loses no session.
<1>1. ASSUME callPc' = callPc, replyPc' = replyPc, pending' \subseteq pending,
             registry' \subseteq registry, disposed \subseteq disposed',
             \A c \in Calls : sends[c] > 0 => sends'[c] > 0,
             \A s \in opened' : s \in registry' \/ s \in disposed' \/ \E k \in Closers : s \in batch'[k]
      PROVE  AnswersInv'
  BY <1>1 DEF AnswersInv
<1>2. ASSUME NEW s \in Sessions, Open(s) PROVE AnswersInv'
  <2>1. \A c \in Calls : callPc[c] # "idle" => Owner[c] # s
    BY <1>2 DEF Open, IInv, CallInv
  <2>2. \A c \in Calls : replyPc[c] = "ignored" => callPc[c] = "posted"
    BY DEF IInv, CallInv
  <2> QED
    BY <1>2, <2>1, <2>2 DEF Open, AnswersInv
<1>3. ASSUME NEW c \in Calls, CallChecks(c) PROVE AnswersInv'
  BY <1>3 DEF CallChecks, AnswersInv, IInv, TypeOK
<1>4. ASSUME NEW c \in Calls, CallRegisters(c) PROVE AnswersInv'
  <2>1. replyPc[c] = "none"
    BY <1>4 DEF CallRegisters, IInv, CallInv, TypeOK
  <2>2. /\ \A e \in Calls : e # c => callPc'[e] = callPc[e]
        /\ callPc'[c] \in {"registered", "refused"}
        /\ pending' \subseteq pending \cup {c}
        /\ UNCHANGED <<regVars, replyPc, sends, batch>>
    BY <1>4 DEF CallRegisters, IInv, TypeOK
  <2>3. \A e \in Calls : callPc'[e] = "unposted" => Owner[e] \in disposed'
    BY <2>2 DEF AnswersInv
  <2> QED
    BY <2>1, <2>2, <2>3 DEF AnswersInv
<1>5. ASSUME NEW c \in Calls, CallPosts(c) PROVE AnswersInv'
  BY <1>5 DEF CallPosts, Alive, AnswersInv, IInv, TypeOK
<1>6. ASSUME NEW c \in Calls, ReplyLooks(c) PROVE AnswersInv'
  BY <1>6 DEF ReplyLooks, AnswersInv, IInv, TypeOK
<1>7. ASSUME NEW c \in Calls, ReplyTakes(c) PROVE AnswersInv'
  BY <1>7 DEF ReplyTakes, AnswersInv, IInv, TypeOK
<1>8. ASSUME NEW c \in Calls, ReplySends(c) PROVE AnswersInv'
  BY <1>8 DEF ReplySends, AnswersInv, IInv, TypeOK
<1>9. ASSUME NEW o \in Objects, InsertStep(o) \/ \E d \in Droppers : DropLooks(d, o)
      PROVE  AnswersInv'
  BY <1>9 DEF InsertStep, InsertLooks, Insert, DropLooks, AnswersInv
<1>10. ASSUME NEW d \in Droppers, DropStep(d) PROVE AnswersInv'
  BY <1>10 DEF DropStep, DropTakes, DropCalls, AnswersInv
<1>11. ASSUME NEW k \in Closers, NEW S \in SUBSET Sessions, Take(k, S) PROVE AnswersInv'
  <2>1. \A s \in opened : s \in registry' \/ s \in disposed \/ \E l \in Closers : s \in batch'[l]
    <3>1. SUFFICES ASSUME NEW s \in opened, s \notin registry', s \notin disposed
                   PROVE  \E l \in Closers : s \in batch'[l]
      OBVIOUS
    <3>2. batch[k] = {} /\ batch' = [batch EXCEPT ![k] = S] /\ registry' = registry \ S
      BY <1>11 DEF Take, IInv, CloserInv
    <3>3. CASE s \in registry
      <4>1. s \in batch'[k]
        BY <3>1, <3>2, <3>3 DEF IInv, TypeOK
      <4> QED
        BY <4>1
    <3>4. CASE s \notin registry
      <4>1. PICK l \in Closers : s \in batch[l]
        BY <3>1, <3>4 DEF AnswersInv
      <4>2. s \in batch'[l]
        BY <3>2, <4>1 DEF IInv, TypeOK
      <4> QED
        BY <4>2
    <3> QED
      BY <3>3, <3>4
  <2> QED
    BY <1>1, <1>11, <2>1 DEF Take
<1>12. ASSUME NEW k \in Closers, Pick(k) \/ DetachStore(k) \/ EmptyStore(k) \/ DropOne(k)
       PROVE  AnswersInv'
  BY <1>12 DEF Pick, DetachStore, EmptyStore, DropOne, AnswersInv
<1>13. ASSUME NEW k \in Closers, Dispose(k) PROVE AnswersInv'
  BY <1>1, <1>13 DEF Dispose, AnswersInv
<1>14. ASSUME NEW k \in Closers, FailOne(k) PROVE AnswersInv'
  <2>1. \A c \in Calls : sends[c] > 0 => sends'[c] > 0
    BY <1>14 DEF FailOne, IInv, TypeOK
  <2> QED
    BY <1>1, <1>14, <2>1 DEF FailOne, AnswersInv
<1>15. ASSUME NEW k \in Closers, Finish(k) PROVE AnswersInv'
  <2>1. current[k] \in disposed
    BY <1>15 DEF Finish, IInv, CloserInv, DisposedInv, Working
  <2>2. \A s \in opened : s \in registry \/ s \in disposed \/ \E l \in Closers : s \in batch'[l]
    <3>1. \A l \in Closers : \A s \in batch[l] : s # current[k] => s \in batch'[l]
      BY <1>15 DEF Finish, IInv, TypeOK
    <3> QED
      BY <2>1, <3>1 DEF AnswersInv
  <2> QED
    BY <1>1, <1>15, <2>2 DEF Finish
<1>16. CASE UNCHANGED vars
  BY <1>16 DEF vars, AnswersInv
<1>17. ASSUME NEW k \in Closers, Close(k) \/ CloseAll(k) PROVE AnswersInv'
  <2>1. registry \subseteq Sessions
    BY DEF IInv, TypeOK
  <2>2. PICK S \in SUBSET Sessions : Take(k, S)
    BY <1>17, <2>1 DEF Close, CloseAll
  <2> QED
    BY <1>11, <2>2
<1> QED
  BY <1>2, <1>3, <1>4, <1>5, <1>6, <1>7, <1>8, <1>9, <1>10, <1>12, <1>13, <1>14, <1>15, <1>16, <1>17
     DEF Next, CallStep, ReplyStep, CloseStep

\* Nobody is owed anything when no thread is on the way to pay it: a call whose
\* frame or reply ran into the close of its session has been failed by
\* dispose(), and no object outlives its session.
THEOREM EverybodyIsPaid == Spec => []NobodyIsOwed
<1>1. Init => AnswersInv
  BY DEF Init, AnswersInv
<1>2. IInv /\ AnswersInv => NobodyIsOwed
  <2>1. SUFFICES ASSUME IInv, AnswersInv, AtRest
                 PROVE  /\ \A c \in Calls : Registered(c) => sends[c] = 1
                        /\ \A o \in Objects : objPc[o] = "live" /\ Owner[o] \notin registry =>
                             drops[o] = 1
    BY DEF NobodyIsOwed
  <2>2. /\ \A k \in Closers : batch[k] = {} /\ abandoned[k] = {} /\ doomed[k] = {}
        /\ \A s \in opened : s \in registry \/ s \in disposed
    BY <2>1 DEF IInv, CloserInv, AtRest, AnswersInv
  <2>3. ASSUME NEW c \in Calls, Registered(c), sends[c] = 0 PROVE FALSE
    <3>1. c \in pending /\ Owner[c] \in opened
      BY <2>1, <2>2, <2>3 DEF IInv, CallInv, CallHasOneHolder, AtRest, Registered
    <3>2. Owner[c] \notin disposed /\ Owner[c] \in registry
      BY <2>1, <2>2, <3>1 DEF IInv, HoldInv
    <3>3. callPc[c] = "posted"
      BY <2>1, <2>3, <3>2 DEF AnswersInv, AtRest, Registered
    <3>4. replyPc[c] \in {"sent", "ignored"}
      BY <2>1, <3>3 DEF AtRest, IInv, TypeOK
    <3> QED
      BY <2>1, <2>3, <3>1, <3>2, <3>4 DEF AnswersInv
  <2>4. ASSUME NEW o \in Objects, objPc[o] = "live", Owner[o] \notin registry, drops[o] = 0
        PROVE  FALSE
    <3>1. o \in objects
      BY <2>1, <2>2, <2>4 DEF IInv, ObjectInv, ObjectHasOneHolder, Dropping, AtRest
    <3>2. Owner[o] \in disposed
      BY <2>1, <2>2, <2>4 DEF IInv, ObjectInv
    <3> QED
      BY <2>1, <3>1, <3>2 DEF IInv, HoldInv, AtRest
  <2>5. sends \in [Calls -> 0..1] /\ drops \in [Objects -> 0..1]
    BY <2>1 DEF IInv, TypeOK
  <2> QED
    BY <2>3, <2>4, <2>5
<1> QED
  BY <1>1, <1>2, AnswersStep, SessionInvariant, PTL DEF Spec
=============================================================================
