--------------------------- MODULE TraversalProofs ---------------------------
(***************************************************************************)
(* Proofs about module Traversal, for any tree, configuration, arguments   *)
(* and order in which the threads of the walk deliver: a collection that   *)
(* ends without an error has emitted exactly the files that the filters    *)
(* let through, of the names of one inode at most one is emitted, a walk   *)
(* stays on its argument's device, after an error nothing more is taken    *)
(* in, and no directory is walked twice for one argument.                  *)
(***************************************************************************)
EXTENDS Traversal, TLAPS

TypeInv ==
  /\ input \in [fs : FileSystems, config : Configs, args : Arguments]
  /\ cancelled \in BOOLEAN
  /\ pc \in {"begin", "argument", "root", "walk", "done"}
  /\ argument \in Nat \ {0}
  /\ root \in Nodes \cup {Nowhere}
  /\ pending \in Seq(Nodes)
  /\ visited \subseteq Nodes
  /\ ask \subseteq Nodes /\ todo \subseteq Nodes
  /\ ready \subseteq Nodes \cup {Broken}
  /\ stop \in BOOLEAN
  /\ walkError \in {"none", "io", "cancelled"}
  /\ emitted \in [Nodes -> 0 .. Many]
  /\ total_dirs \in 0 .. Many
  /\ result \in {"none", "ok", "io", "cancelled"}

\* What has been emitted is a file that no filter excludes, ...
EmittedIsFile ==
  \A n \in Nodes : emitted[n] > 0 => Is(n, "file") /\ n \notin fs.ignored

\* ... its inode is remembered if it may come again, ...
EmittedIsSeen ==
  \A n \in Nodes : emitted[n] > 0 /\ Shared(n) /\ ~config.count_hardlinks
    => emitted[n] = 1 /\ Inode(n) \in seen

\* ... and no other name of it has been emitted.
CopiesOnce ==
  ~config.count_hardlinks =>
    \A m, n \in Nodes :
      emitted[m] > 0 /\ emitted[n] > 0 /\ Inode(m) = Inode(n) /\ Shared(m)
        => m = n /\ emitted[m] = 1

\* What is being walked or will be is on the device of its argument, and
\* between the walks there is nothing to be walked.
OnDeviceOnly ==
  pc \in {"root", "walk"} =>
    /\ \A d \in todo : OnDevice(argument, d)
    /\ \A k \in 1 .. Len(pending) : OnDevice(argument, pending[k])
    /\ pc = "walk" => OnDevice(argument, root)

WalkIsOver == pc # "walk" => ask = {} /\ todo = {} /\ ready = {}

EmitInv == EmittedIsFile /\ EmittedIsSeen /\ CopiesOnce
WalkInv == OnDeviceOnly /\ WalkIsOver
IInv    == TypeInv /\ EmitInv /\ WalkInv

-----------------------------------------------------------------------------
(* The parts of the input have their types. *)
LEMMA InputTypes ==
  ASSUME TypeInv
  PROVE  /\ fs \in FileSystems /\ args \in Seq(Nodes)
         /\ fs.kind \in [Nodes -> Kinds]
         /\ fs.parent \in [Nodes -> Nodes \cup {Nowhere}]
         /\ fs.target \in [Nodes -> Nodes \cup {Nowhere}]
  BY TraversalAssumption DEF TypeInv, fs, args

(* No step changes the input, nor what it says. *)
LEMMA InputStays ==
  ASSUME [Next]_vars
  PROVE  input' = input
  BY DEF Next, vars, Caller, Collect, Walker, Consume, Begin, ArgumentsEnd, ArgumentFails,
         ArgumentFile, ArgumentDir, RootsEnd, RootCancelled, RootBegin, WalkEnd, Return,
         Drain, TakeCancelled, TakeFails, Fails, TakeFile, TakeDir, TakeDirLink, TakeOther,
         Working, Take, Descend, Read, Cancel

LEMMA SameTree ==
  ASSUME input' = input
  PROVE  /\ fs' = fs /\ config' = config /\ args' = args
         /\ \A n : Inode(n)' = Inode(n) /\ (Shared(n)' <=> Shared(n))
         /\ \A n, kind : Is(n, kind)' <=> Is(n, kind)
         /\ \A k, n : OnDevice(k, n)' <=> OnDevice(k, n)
  BY DEF fs, config, args, Inode, Shared, Is, OnDevice, Resolved

(* A link leads to something that is no link, so that following it again   *)
(* leads nowhere else.                                                     *)
LEMMA ResolvedOnce ==
  ASSUME TypeInv, NEW n \in Nodes, NEW kind \in {"file", "dir"}, Is(n, kind)
  PROVE  Resolved(n) \in Nodes /\ Resolved(Resolved(n)) = Resolved(n)
  BY InputTypes DEF Is, Resolved

(* Whether an inode has several names does not depend on the name.         *)
LEMMA SharedByAll ==
  ASSUME TypeInv, NEW m \in Nodes, NEW n \in Nodes, Is(m, "file"), Is(n, "file"),
         Inode(m) = Inode(n), Shared(m)
  PROVE  Shared(n)
<1>1. PICK w \in Nodes \ {Resolved(m)} : fs.kind[w] = "file" /\ Inode(w) = Inode(m)
  BY DEF Shared
<1>2. CASE Resolved(n) # w
  BY <1>1, <1>2 DEF Shared
<1>3. CASE Resolved(n) = w
  <2>1. /\ Resolved(m) \in Nodes \ {Resolved(n)}
        /\ fs.kind[Resolved(m)] = "file"
        /\ Inode(Resolved(m)) = Inode(n)
    BY <1>1, <1>3, ResolvedOnce DEF Is, Inode
  <2> QED
    BY <2>1 DEF Shared
<1> QED
  BY <1>2, <1>3

(* emit keeps what is known of the files emitted.                          *)
LEMMA EmitKeeps ==
  ASSUME IInv, input' = input, NEW n \in Nodes, Is(n, "file"), Emit(n)
  PROVE  emitted' \in [Nodes -> 0 .. Many] /\ EmitInv'
<1> DEFINE dedup == ~config.count_hardlinks /\ Shared(n)
<1>1. CASE UNCHANGED <<emitted, seen>>
  BY <1>1, SameTree DEF IInv, TypeInv, EmitInv, EmittedIsFile, EmittedIsSeen, CopiesOnce
<1>2. CASE /\ n \notin fs.ignored /\ ~(dedup /\ Inode(n) \in seen)
           /\ emitted' = [emitted EXCEPT ![n] = More(@)]
           /\ seen' = IF dedup THEN seen \cup {Inode(n)} ELSE seen
  <2>1. \A k \in 0 .. Many : More(k) \in 1 .. Many /\ (k = 0 => More(k) = 1)
    BY DEF More, Many
  <2>2. /\ emitted \in [Nodes -> 0 .. Many] /\ emitted' \in [Nodes -> 0 .. Many]
        /\ emitted'[n] > 0 /\ \A m \in Nodes \ {n} : emitted'[m] = emitted[m]
        /\ emitted[n] = 0 => emitted'[n] = 1
    <3>1. emitted \in [Nodes -> 0 .. Many] /\ emitted[n] \in 0 .. Many
      BY DEF IInv, TypeInv
    <3>2. /\ emitted'[n] = More(emitted[n]) /\ More(emitted[n]) \in 1 .. Many
          /\ \A m \in Nodes \ {n} : emitted'[m] = emitted[m]
      BY <1>2, <2>1, <3>1
    <3>3. 1 .. Many \subseteq 0 .. Many /\ \A k \in 1 .. Many : k > 0
      BY DEF Many
    <3> QED
      BY <1>2, <2>1, <3>1, <3>2, <3>3
  <2>3. \A m \in Nodes : emitted[m] \in Nat /\ emitted'[m] \in Nat
    BY <2>2
  <2>4. EmittedIsFile'
    BY <1>2, <2>2, SameTree DEF IInv, EmitInv, EmittedIsFile
  \* An inode that may come again has not come before.
  <2>5. ASSUME dedup, NEW m \in Nodes, emitted[m] > 0
        PROVE  Inode(m) # Inode(n)
    <3>1. SUFFICES ASSUME Inode(m) = Inode(n) PROVE FALSE
      OBVIOUS
    <3>2. Is(m, "file")
      BY <2>5 DEF IInv, EmitInv, EmittedIsFile
    <3>3. Shared(m)
      BY <2>5, <3>1, <3>2, SharedByAll DEF IInv
    <3> QED
      BY <1>2, <2>5, <3>1, <3>3 DEF IInv, EmitInv, EmittedIsSeen
  <2>6. dedup => emitted[n] = 0 /\ emitted'[n] = 1
    BY <2>2, <2>5 DEF IInv, TypeInv, Many
  <2>7. EmittedIsSeen'
    BY <1>2, <2>2, <2>6, SameTree DEF IInv, EmitInv, EmittedIsSeen
  <2>8. CopiesOnce'
    <3> SUFFICES ASSUME ~config.count_hardlinks, NEW m \in Nodes, NEW k \in Nodes,
                        emitted'[m] > 0, emitted'[k] > 0, Inode(m) = Inode(k), Shared(m)
                 PROVE  m = k /\ emitted'[m] = 1
      BY SameTree DEF CopiesOnce
    <3>1. Is(m, "file") /\ Is(k, "file") /\ Shared(k)
      <4>1. Is(m, "file") /\ Is(k, "file")
        BY <2>4, SameTree DEF EmittedIsFile
      <4> QED
        BY <4>1, SharedByAll DEF IInv
    <3>2. CASE m # n /\ k # n
      BY <2>2, <3>2 DEF IInv, EmitInv, CopiesOnce
    <3>3. CASE m = n \/ k = n
      <4>1. dedup
        BY <3>1, <3>3
      <4> QED
        BY <2>2, <2>5, <2>6, <3>3, <4>1
    <3> QED
      BY <3>2, <3>3
  <2> QED
    BY <2>2, <2>4, <2>7, <2>8 DEF EmitInv
<1> QED
  BY <1>1, <1>2 DEF Emit

(* A step that emits nothing keeps it, too.                                *)
LEMMA QuietKeeps ==
  ASSUME EmitInv, UNCHANGED <<input, emitted, seen>>
  PROVE  EmitInv'
  BY SameTree DEF EmitInv, EmittedIsFile, EmittedIsSeen, CopiesOnce

-----------------------------------------------------------------------------
(* The types and the invariants hold at the start. *)
LEMMA InitHolds == ASSUME Init PROVE IInv
<1>1. /\ pending = <<>> /\ <<>> \in Seq(Nodes) /\ 1 .. Len(<<>>) = {}
      /\ \A n \in Nodes : emitted[n] = 0
  BY DEF Init
<1>2. TypeInv
  <2>1. emitted \in [Nodes -> 0 .. Many] /\ total_dirs \in 0 .. Many
    BY DEF Init, Many
  <2>2. input \in [fs : FileSystems, config : Configs, args : Arguments]
    BY DEF Init
  <2>3. pending \in Seq(Nodes) /\ argument \in Nat \ {0} /\ root \in Nodes \cup {Nowhere}
    BY <1>1 DEF Init
  <2>4. /\ cancelled \in BOOLEAN /\ stop \in BOOLEAN
        /\ pc \in {"begin", "argument", "root", "walk", "done"}
        /\ walkError \in {"none", "io", "cancelled"}
        /\ result \in {"none", "ok", "io", "cancelled"}
        /\ visited = {} /\ ask = {} /\ todo = {} /\ ready = {}
    BY DEF Init
  <2> QED
    BY <2>1, <2>2, <2>3, <2>4 DEF TypeInv
<1>3. EmitInv
  BY <1>1 DEF EmitInv, EmittedIsFile, EmittedIsSeen, CopiesOnce
<1>4. WalkInv
  BY DEF Init, WalkInv, OnDeviceOnly, WalkIsOver
<1> QED
  BY <1>2, <1>3, <1>4 DEF IInv

(* The calling thread between the walks. *)
LEMMA CollectKeeps ==
  ASSUME IInv, Collect
  PROVE  IInv'
<1> USE DEF Return, walkVars
<1>0. /\ input' = input
      /\ TypeInv /\ EmitInv /\ OnDeviceOnly /\ WalkIsOver
  BY InputStays DEF IInv, WalkInv, Next, Caller
<1>1. CASE Begin \/ ArgumentsEnd \/ ArgumentFails \/ RootsEnd \/ RootCancelled \/ WalkEnd
  <2>1. /\ UNCHANGED <<cancelled, pending, visited, seen, root, ask, todo, ready, stop,
                       walkError, emitted, total_dirs>>
        /\ argument' \in {argument, argument + 1}
        /\ pc' \in {"argument", "root", "done"} /\ result' \in {"none", "ok", "io", "cancelled"}
        /\ pc' = "root" => pc = "walk" /\ argument' = argument
        /\ ask = {} /\ todo = {} /\ ready = {}
    <3>1. CASE Begin
      BY <1>0, <3>1 DEF Begin, TypeInv, WalkIsOver
    <3>2. CASE ArgumentsEnd \/ ArgumentFails
      BY <1>0, <3>2 DEF ArgumentsEnd, ArgumentFails, TypeInv, WalkIsOver
    <3>3. CASE RootsEnd \/ RootCancelled
      BY <1>0, <3>3 DEF RootsEnd, RootCancelled, TypeInv, WalkIsOver
    <3>4. CASE WalkEnd
      BY <1>0, <3>4 DEF WalkEnd, TypeInv
    <3> QED
      BY <1>1, <3>1, <3>2, <3>3, <3>4
  <2>2. argument' \in Nat \ {0}
    BY <1>0, <2>1 DEF TypeInv
  <2>3. TypeInv'
    BY <1>0, <2>1, <2>2 DEF TypeInv
  <2>4. EmitInv'
    BY <1>0, <2>1, QuietKeeps
  <2>5. WalkInv'
    BY <1>0, <2>1, SameTree DEF WalkInv, OnDeviceOnly, WalkIsOver
  <2> QED
    BY <2>3, <2>4, <2>5 DEF IInv
<1>2. CASE ArgumentFile
  <2>1. /\ pc = "argument" /\ argument <= Len(args)
        /\ Is(args[argument], "file") /\ Emit(args[argument])
        /\ argument' = argument + 1
        /\ UNCHANGED <<cancelled, pc, pending, visited, root, ask, todo, ready, stop,
                       walkError, total_dirs, result>>
    BY <1>2 DEF ArgumentFile
  <2>2. args[argument] \in Nodes /\ argument' \in Nat \ {0}
    BY <1>0, <2>1, InputTypes DEF TypeInv
  <2>3. emitted' \in [Nodes -> 0 .. Many] /\ EmitInv'
    BY <1>0, <2>1, <2>2, EmitKeeps
  <2>4. TypeInv' /\ WalkInv'
    BY <1>0, <2>1, <2>2, <2>3 DEF TypeInv, WalkInv, OnDeviceOnly, WalkIsOver
  <2> QED
    BY <2>3, <2>4 DEF IInv
<1>3. CASE ArgumentDir
  <2> DEFINE dir == Resolved(args[argument])
  <2>1. /\ pc = "argument" /\ argument <= Len(args) /\ Is(args[argument], "dir")
        /\ total_dirs' = More(total_dirs) /\ pending' = <<dir>> /\ pc' = "root"
        /\ visited' = IF config.follow_symlinks THEN {dir} ELSE {}
        /\ UNCHANGED <<cancelled, argument, seen, root, ask, todo, ready, stop, walkError,
                       emitted, result>>
    BY <1>3 DEF ArgumentDir
  <2>2. args[argument] \in Nodes
    BY <1>0, <2>1, InputTypes DEF TypeInv
  <2>3. dir \in Nodes /\ Resolved(dir) = dir
    BY <1>0, <2>1, <2>2, ResolvedOnce
  <2>4. total_dirs' \in 0 .. Many
    BY <1>0, <2>1 DEF TypeInv, More, Many
  <2>5. pending' \in Seq(Nodes) /\ \A k \in 1 .. Len(pending') : pending'[k] = dir
    BY <2>1, <2>3
  <2>6. TypeInv'
    BY <1>0, <2>1, <2>3, <2>4, <2>5 DEF TypeInv
  <2>7. OnDevice(argument, dir)
    BY <2>3 DEF OnDevice
  <2>8. WalkInv'
    BY <1>0, <2>1, <2>5, <2>7, SameTree DEF WalkInv, OnDeviceOnly, WalkIsOver
  <2> QED
    BY <1>0, <2>1, <2>6, <2>8, QuietKeeps DEF IInv
<1>4. CASE RootBegin
  <2>1. /\ pc = "root" /\ pending # <<>> /\ pc' = "walk"
        /\ root' = Head(pending) /\ pending' = Tail(pending)
        /\ ask' = {Head(pending)} /\ ready' = {Head(pending)} /\ todo' = {}
        /\ stop' = FALSE /\ walkError' = "none"
        /\ UNCHANGED <<cancelled, argument, visited, seen, emitted, total_dirs, result>>
    BY <1>4 DEF RootBegin
  <2>2. /\ Head(pending) \in Nodes /\ Tail(pending) \in Seq(Nodes)
        /\ Head(pending) = pending[1] /\ 1 \in 1 .. Len(pending)
        /\ \A k \in 1 .. Len(Tail(pending)) :
             k + 1 \in 1 .. Len(pending) /\ Tail(pending)[k] = pending[k + 1]
    BY <1>0, <2>1 DEF TypeInv
  <2>3. TypeInv'
    BY <1>0, <2>1, <2>2 DEF TypeInv
  <2>4. WalkInv'
    BY <1>0, <2>1, <2>2, SameTree DEF WalkInv, OnDeviceOnly, WalkIsOver
  <2> QED
    BY <1>0, <2>1, <2>3, <2>4, QuietKeeps DEF IInv
<1> QED
  BY <1>1, <1>2, <1>3, <1>4 DEF Collect

(* The threads of the walk. *)
LEMMA WalkerKeeps ==
  ASSUME IInv, Walker
  PROVE  IInv'
<1>0. /\ input' = input
      /\ TypeInv /\ EmitInv /\ OnDeviceOnly /\ WalkIsOver
  BY InputStays DEF IInv, WalkInv, Next
<1>1. PICK d \in Nodes : Descend(d) \/ Read(d)
  BY DEF Walker
<1>2. /\ UNCHANGED <<cancelled, pc, argument, pending, visited, seen, root, stop, walkError,
                     emitted, total_dirs, result>>
      /\ pc = "walk"
      /\ ask' \subseteq Nodes /\ ready' \subseteq Nodes \cup {Broken}
      /\ todo' \subseteq Nodes
      /\ \A e \in todo' : e \in todo \/ e = root \/ OnDevice(argument, e)
  <2>1. CASE Descend(d)
    BY <1>0, <2>1 DEF Descend, TypeInv, WalkIsOver
  <2>2. CASE Read(d)
    <3>1. Entries(d) \subseteq Nodes
      BY DEF Entries
    <3> QED
      BY <1>0, <2>2, <3>1 DEF Read, TypeInv, WalkIsOver
  <2> QED
    BY <1>1, <2>1, <2>2
<1>3. TypeInv'
  BY <1>0, <1>2 DEF TypeInv
<1>4. WalkInv'
  BY <1>0, <1>2, SameTree DEF WalkInv, OnDeviceOnly, WalkIsOver
<1> QED
  BY <1>0, <1>2, <1>3, <1>4, QuietKeeps DEF IInv

(* The calling thread in a walk. *)
LEMMA ConsumeKeeps ==
  ASSUME IInv, NEW n \in ready, Consume(n)
  PROVE  IInv'
<1> USE DEF Working, Take, Fails
<1>0. /\ input' = input
      /\ TypeInv /\ EmitInv /\ OnDeviceOnly /\ WalkIsOver
  BY InputStays DEF IInv, WalkInv, Next, Caller
<1>1. /\ pc = "walk" /\ n \in Nodes \cup {Broken}
      /\ ready' \subseteq Nodes \cup {Broken}
      /\ UNCHANGED <<cancelled, pc, argument, root, ask, todo, result>>
  BY <1>0 DEF Consume, Drain, TakeCancelled, TakeFails, TakeFile, TakeDir, TakeDirLink,
              TakeOther, TypeInv
<1>2. CASE Drain(n) \/ TakeCancelled(n) \/ TakeFails(n) \/ TakeDir(n) \/ TakeOther(n)
  <2>1. /\ UNCHANGED <<pending, visited, seen, emitted>>
        /\ stop' \in {stop, TRUE} /\ walkError' \in {walkError, "io", "cancelled"}
        /\ total_dirs' \in {total_dirs, More(total_dirs)}
    BY <1>2 DEF Drain, TakeCancelled, TakeFails, TakeDir, TakeOther
  <2>2. total_dirs' \in 0 .. Many
    BY <1>0, <2>1 DEF TypeInv, More, Many
  <2>3. TypeInv'
    BY <1>0, <1>1, <2>1, <2>2 DEF TypeInv
  <2>4. WalkInv'
    BY <1>0, <1>1, <2>1, SameTree DEF WalkInv, OnDeviceOnly, WalkIsOver
  <2> QED
    BY <1>0, <2>1, <2>3, <2>4, QuietKeeps DEF IInv
<1>3. CASE TakeFile(n)
  <2>1. /\ n \in Nodes /\ Emit(n)
        /\ UNCHANGED <<pending, visited, stop, walkError, total_dirs>>
    BY <1>1, <1>3 DEF TakeFile, Broken
  <2>2. Is(n, "file")
    BY <1>0, <1>3, <2>1, TraversalAssumption DEF TakeFile, Is, Resolved
  <2>3. emitted' \in [Nodes -> 0 .. Many] /\ EmitInv'
    BY <1>0, <2>1, <2>2, EmitKeeps
  <2>4. TypeInv'
    BY <1>0, <1>1, <2>1, <2>3 DEF TypeInv
  <2>5. WalkInv'
    BY <1>0, <1>1, <2>1, SameTree DEF WalkInv, OnDeviceOnly, WalkIsOver
  <2> QED
    BY <2>3, <2>4, <2>5 DEF IInv
<1>4. CASE TakeDirLink(n)
  <2>1. /\ n \in Nodes /\ Is(n, "dir") /\ OnDevice(argument, n)
        /\ total_dirs' = More(total_dirs)
        /\ UNCHANGED <<seen, stop, walkError, emitted>>
        /\ \/ UNCHANGED <<pending, visited>>
           \/ /\ pending' = Append(pending, Resolved(n))
              /\ visited' = visited \cup {Resolved(n)}
    BY <1>1, <1>4 DEF TakeDirLink, Broken
  <2>2. Resolved(n) \in Nodes /\ Resolved(Resolved(n)) = Resolved(n)
    BY <1>0, <2>1, ResolvedOnce
  <2>3. OnDevice(argument, Resolved(n))
    BY <2>1, <2>2 DEF OnDevice
  <2>4. total_dirs' \in 0 .. Many
    BY <1>0, <2>1 DEF TypeInv, More, Many
  <2>5. /\ pending' \in Seq(Nodes) /\ visited' \subseteq Nodes
        /\ \A k \in 1 .. Len(pending') : OnDevice(argument, pending'[k])
    <3>1. CASE UNCHANGED <<pending, visited>>
      BY <1>0, <1>1, <3>1 DEF TypeInv, OnDeviceOnly
    <3>2. CASE /\ pending' = Append(pending, Resolved(n))
               /\ visited' = visited \cup {Resolved(n)}
      <4>1. \A k \in 1 .. Len(pending') :
              pending'[k] = Resolved(n) \/ (k \in 1 .. Len(pending) /\ pending'[k] = pending[k])
        BY <1>0, <2>2, <3>2 DEF TypeInv
      <4>2. pending' \in Seq(Nodes) /\ visited' \subseteq Nodes
        BY <1>0, <2>2, <3>2 DEF TypeInv
      <4> QED
        BY <1>0, <1>1, <2>3, <4>1, <4>2 DEF OnDeviceOnly
    <3> QED
      BY <2>1, <3>1, <3>2
  <2>6. TypeInv'
    BY <1>0, <1>1, <2>1, <2>4, <2>5 DEF TypeInv
  <2>7. WalkInv'
    BY <1>0, <1>1, <2>5, SameTree DEF WalkInv, OnDeviceOnly, WalkIsOver
  <2> QED
    BY <1>0, <2>1, <2>6, <2>7, QuietKeeps DEF IInv
<1> QED
  BY <1>2, <1>3, <1>4 DEF Consume

(* The invariant holds in every reachable state. *)
LEMMA InvariantHolds == Init /\ [][Next]_vars => []IInv
<1>1. IInv /\ [Next]_vars => IInv'
  <2> SUFFICES ASSUME IInv, [Next]_vars PROVE IInv'
    OBVIOUS
  <2>1. CASE Cancel \/ UNCHANGED vars
    <3>1. UNCHANGED <<input, pc, argument, pending, visited, seen, walkVars, emitted,
                      total_dirs, result>>
          /\ cancelled' \in {cancelled, TRUE}
      BY <2>1 DEF Cancel, vars
    <3>2. TypeInv'
      BY <3>1 DEF IInv, TypeInv, walkVars
    <3>3. WalkInv'
      BY <3>1, SameTree DEF IInv, WalkInv, OnDeviceOnly, WalkIsOver, walkVars
    <3> QED
      BY <3>1, <3>2, <3>3, QuietKeeps DEF IInv
  <2> QED
    BY <2>1, CollectKeeps, ConsumeKeeps, WalkerKeeps DEF Next, Caller
<1> QED
  BY <1>1, InitHolds, PTL

-----------------------------------------------------------------------------
(* Every variable keeps its type, for any tree. *)
THEOREM TypeCorrect == Spec => []TypeInv
<1>1. IInv => TypeInv
  BY DEF IInv
<1> QED
  BY <1>1, InvariantHolds, PTL DEF Spec

(* Unless copies are counted, of the names of one inode with several links *)
(* at most one is emitted, and once, at every moment and whatever order    *)
(* the threads of the walk deliver them in and however often a directory   *)
(* is reached (seen_inodes, crawl.rs:455-466).  A file of a single link is *)
(* not remembered there and is emitted each time that it is met.           *)
THEOREM InodesComeOnce == Spec => []CopiesOnce
<1>1. IInv => CopiesOnce
  BY DEF IInv, EmitInv
<1> QED
  BY <1>1, InvariantHolds, PTL DEF Spec

(* With --single-filesystem no directory is descended into, and none       *)
(* becomes a root of its own, on another device than the argument's        *)
(* (crawl.rs:263).                                                         *)
THEOREM DevicesAreKept == Spec => []OnDeviceOnly
<1>1. IInv => OnDeviceOnly
  BY DEF IInv, WalkInv
<1> QED
  BY <1>1, InvariantHolds, PTL DEF Spec

(* After the first error of a walk its entries are drained and nothing     *)
(* more is taken in, in any tree.                                          *)
THEOREM DrainsInSilence == Spec => DrainIsSilent
<1>1. [Next]_vars => (pc = "walk" /\ walkError # "none"
                         => UNCHANGED <<emitted, seen, pending, visited, walkError>>)
  <2> SUFFICES ASSUME [Next]_vars, pc = "walk", walkError # "none"
               PROVE  UNCHANGED <<emitted, seen, pending, visited, walkError>>
    OBVIOUS
  <2>1. CASE Collect
    BY <2>1 DEF Collect, Begin, ArgumentsEnd, ArgumentFails, ArgumentFile, ArgumentDir,
                RootsEnd, RootCancelled, RootBegin, WalkEnd, Return, walkVars
  <2>2. ASSUME NEW n \in ready, Consume(n)
        PROVE  UNCHANGED <<emitted, seen, pending, visited, walkError>>
    BY <2>2 DEF Consume, Drain, TakeCancelled, TakeFails, Fails, TakeFile, TakeDir, TakeDirLink,
                TakeOther, Working
  <2>3. CASE Walker \/ Cancel \/ UNCHANGED vars
    BY <2>3 DEF Walker, Descend, Read, Cancel, vars, walkVars
  <2> QED
    BY <2>1, <2>2, <2>3 DEF Next, Caller
<1> QED
  BY <1>1, PTL DEF Spec, DrainIsSilent
-----------------------------------------------------------------------------
(***************************************************************************)
(* What is collected is what ought to be.  Nothing else: all that is       *)
(* walked has been reached from the argument, and all that is emitted is   *)
(* wanted.                                                                 *)
(***************************************************************************)
InWalk == pc \in {"root", "walk"}
Queued == {pending[k] : k \in 1 .. Len(pending)}

WalkIsReached ==
  InWalk =>
    /\ argument \in 1 .. Len(args) /\ Is(args[argument], "dir")
    /\ Queued \cup todo \subseteq Reached(argument)
    /\ pc = "walk" =>
         /\ root \in Reached(argument)
         /\ \A n \in (ask \cup ready) \ {Broken} :
              n = root \/ fs.parent[n] \in Reached(argument)
         /\ \A d \in ask : fs.kind[d] = "dir"

EmittedIsWanted == \A n \in Nodes : emitted[n] > 0 => n \in Wanted

\* An inode is remembered only for a name that was emitted.
SeenIsEmitted == \A i \in seen : \E n \in Nodes : emitted[n] > 0 /\ Inode(n) = i

\* The walk stops for an error, which is new with each walk.
StopIsError ==
  /\ stop <=> walkError # "none"
  /\ pc \in {"begin", "argument", "root"} => walkError = "none"

(* All of it: an entry of a directory that was read is done with or is     *)
(* still to be consumed, and leads to directories that were read or still  *)
(* will be.  The state does not keep the directories that were read; some  *)
(* set D of them there is.                                                 *)
Settled(n) ==
  emitted[n] > 0 \/ (~config.count_hardlinks /\ Shared(n) /\ Inode(n) \in seen)

IsWantedFile(k, n) ==
  \/ fs.kind[n] = "file"
  \/ fs.kind[n] = "link" /\ config.follow_symlinks /\ Is(n, "file") /\ OnDevice(k, n)

\* What is still to be walked.
Ahead == Queued \cup todo \cup (ask \cap {root})

EntryIsHandled(D, n) ==
  /\ n \in ready \/ /\ IsWantedFile(argument, n) /\ n \notin fs.ignored => Settled(n)
                    /\ (/\ fs.kind[n] = "link" /\ config.follow_symlinks
                        /\ Is(n, "dir") /\ OnDevice(argument, n)) => Resolved(n) \in visited
  /\ fs.kind[n] = "dir" /\ n \notin fs.ignored /\ OnDevice(argument, n)
       => n \in D \cup todo \cup ask

CoveredBy(D) ==
  /\ {Resolved(args[argument])} \cup visited \subseteq D \cup Ahead
  /\ \A n \in Nodes : fs.parent[n] \in D => EntryIsHandled(D, n)

WalkIsCovered ==
  (InWalk /\ ~cancelled /\ walkError = "none" /\ Broken \notin ready)
    => \E D \in SUBSET Nodes : CoveredBy(D)

\* The arguments before this one are done with; when the answer is Ok, all.
ArgumentsAreDone ==
  ~cancelled =>
    /\ \A k \in 1 .. Len(args) : k < argument => \A n \in Names(k) : Settled(n)
    /\ result = "ok" => argument > Len(args)

CoverInv == /\ WalkIsReached /\ EmittedIsWanted /\ SeenIsEmitted /\ StopIsError
            /\ WalkIsCovered /\ ArgumentsAreDone


-----------------------------------------------------------------------------
(* The tree says what it said. *)
LEMMA SameWanted ==
  ASSUME input' = input
  PROVE  /\ \A n : Resolved(n)' = Resolved(n)
         /\ \A k : Reached(k)' = Reached(k) /\ Names(k)' = Names(k)
         /\ Wanted' = Wanted
         /\ \A k, n : IsWantedFile(k, n)' <=> IsWantedFile(k, n)
<1>1. \A n : Resolved(n)' = Resolved(n)
  BY DEF Resolved, fs
<1>2. \A k, d, e : Leads(k, d, e)' <=> Leads(k, d, e)
  BY SameTree DEF Leads, Entries
<1>3. \A k : Reached(k)' = Reached(k)
  BY <1>1, <1>2, SameTree DEF Reached
<1>4. \A k : Names(k)' = Names(k)
  BY <1>3, SameTree DEF Names
<1>5. Wanted' = Wanted
  BY <1>4, SameTree DEF Wanted
<1>6. \A k, n : IsWantedFile(k, n)' <=> IsWantedFile(k, n)
  BY SameTree DEF IsWantedFile
<1> QED
  BY <1>1, <1>3, <1>4, <1>5, <1>6

(* Reached is closed under what leads from one directory to another, and   *)
(* is the least such set.                                                  *)
LEMMA ReachedIsLeast ==
  ASSUME NEW k
  PROVE  /\ Reached(k) \subseteq Nodes
         /\ Resolved(args[k]) \in Nodes => Resolved(args[k]) \in Reached(k)
         /\ \A d \in Reached(k), e \in Nodes : Leads(k, d, e) => e \in Reached(k)
         /\ \A S \in SUBSET Nodes :
              (/\ Resolved(args[k]) \in S
               /\ \A d \in S, e \in Nodes : Leads(k, d, e) => e \in S) => Reached(k) \subseteq S
  BY DEF Reached

LEMMA ReachedAreDirs ==
  ASSUME TypeInv, NEW k \in 1 .. Len(args), Is(args[k], "dir")
  PROVE  /\ Resolved(args[k]) \in Reached(k)
         /\ \A d \in Reached(k) : d \in Nodes /\ fs.kind[d] = "dir"
<1> DEFINE S == {n \in Nodes : fs.kind[n] = "dir"}
<1>1. args[k] \in Nodes
  BY InputTypes
<1>2. Resolved(args[k]) \in S
  BY <1>1, ResolvedOnce DEF Is
<1>3. \A d \in S, e \in Nodes : Leads(k, d, e) => e \in S
  BY DEF Leads
<1>4. Reached(k) \subseteq S
  <2> HIDE DEF S
  <2>1. S \in SUBSET Nodes
    BY DEF S
  <2> QED
    BY <1>2, <1>3, <2>1, ReachedIsLeast
<1> QED
  BY <1>2, <1>4, ReachedIsLeast

(* A file whose directory is reached is wanted, unless it is filtered out. *)
LEMMA FileIsWanted ==
  ASSUME TypeInv, NEW k \in 1 .. Len(args), Is(args[k], "dir"),
         NEW n \in Nodes \ fs.ignored, fs.parent[n] \in Reached(k), IsWantedFile(k, n)
  PROVE  n \in Wanted
<1>1. ~Is(args[k], "file") /\ args \in Seq(Nodes) /\ k \in DOMAIN args
  BY InputTypes DEF Is
<1>2. n \in Names(k)
  BY <1>1 DEF Names, IsWantedFile
<1> QED
  BY <1>1, <1>2 DEF Wanted

(* emit settles its file, and takes nothing back. *)
LEMMA EmitSettles ==
  ASSUME IInv, EmittedIsWanted, SeenIsEmitted, input' = input, NEW n \in Nodes,
         n \notin fs.ignored => n \in Wanted, Emit(n)
  PROVE  /\ EmittedIsWanted' /\ SeenIsEmitted'
         /\ \A m \in Nodes : Settled(m) => Settled(m)'
         /\ n \notin fs.ignored => Settled(n)'
<1> DEFINE dedup == ~config.count_hardlinks /\ Shared(n)
<1>0. emitted \in [Nodes -> 0 .. Many]
  BY DEF IInv, TypeInv
<1>1. CASE /\ UNCHANGED <<emitted, seen>>
           /\ n \in fs.ignored \/ (dedup /\ Inode(n) \in seen)
  BY <1>1, SameTree, SameWanted DEF EmittedIsWanted, SeenIsEmitted, Settled
<1>2. CASE /\ n \notin fs.ignored /\ ~(dedup /\ Inode(n) \in seen)
           /\ emitted' = [emitted EXCEPT ![n] = More(@)]
           /\ seen' = IF dedup THEN seen \cup {Inode(n)} ELSE seen
  <2>1. \A k \in 0 .. Many : More(k) > 0
    BY DEF More, Many
  <2>2. emitted'[n] > 0 /\ \A m \in Nodes \ {n} : emitted'[m] = emitted[m]
    BY <1>0, <1>2, <2>1
  <2>3. EmittedIsWanted'
    BY <1>2, <2>2, SameWanted DEF EmittedIsWanted
  <2>4. \A m \in Nodes : emitted[m] > 0 => emitted'[m] > 0
    BY <2>2
  <2>5. SeenIsEmitted'
    <3> SUFFICES ASSUME NEW i \in seen' PROVE \E m \in Nodes : emitted'[m] > 0 /\ Inode(m) = i
      BY SameTree DEF SeenIsEmitted
    <3>1. i \in seen \/ i = Inode(n)
      BY <1>2
    <3> QED
      BY <2>2, <2>4, <3>1 DEF SeenIsEmitted
  <2>6. \A m \in Nodes : Settled(m) => Settled(m)'
    BY <1>2, <2>4, SameTree DEF Settled
  <2>7. Settled(n)'
    BY <2>2 DEF Settled
  <2> QED
    BY <2>3, <2>5, <2>6, <2>7
<1> QED
  BY <1>1, <1>2 DEF Emit

LEMMA QuietSettles ==
  ASSUME EmittedIsWanted, SeenIsEmitted, UNCHANGED <<input, emitted, seen>>
  PROVE  /\ EmittedIsWanted' /\ SeenIsEmitted'
         /\ \A m : Settled(m)' <=> Settled(m)
  BY SameTree, SameWanted DEF EmittedIsWanted, SeenIsEmitted, Settled

(* The arguments done with stay so. *)
LEMMA DoneStays ==
  ASSUME TypeInv, ArgumentsAreDone, input' = input, argument' = argument,
         cancelled => cancelled',
         \A m \in Nodes : Settled(m) => Settled(m)',
         result' # "ok" \/ result' = result
  PROVE  ArgumentsAreDone'
<1>1. \A k \in 1 .. Len(args) : Names(k) \subseteq Nodes
  BY InputTypes DEF Names
<1>2. \A k : Names(k)' = Names(k)
  BY SameWanted
<1> SUFFICES ASSUME ~cancelled'
             PROVE  /\ \A k \in 1 .. Len(args) : k < argument => \A n \in Names(k) : Settled(n)'
                    /\ result' = "ok" => argument > Len(args)
  BY <1>2, SameTree DEF ArgumentsAreDone
<1> QED
  BY <1>1 DEF ArgumentsAreDone

(* At the start nothing has been collected. *)
LEMMA InitCovers == ASSUME Init PROVE CoverInv
<1>1. /\ seen = {} /\ ~stop /\ walkError = "none" /\ pc = "begin" /\ argument = 1
      /\ result = "none" /\ \A n \in Nodes : emitted[n] = 0
  BY DEF Init
<1>2. WalkIsReached /\ EmittedIsWanted /\ SeenIsEmitted /\ StopIsError /\ WalkIsCovered
  BY <1>1 DEF WalkIsReached, EmittedIsWanted, SeenIsEmitted, StopIsError, WalkIsCovered, InWalk
<1>3. ArgumentsAreDone
  BY <1>1 DEF ArgumentsAreDone
<1> QED
  BY <1>2, <1>3 DEF CoverInv

(* The end of the walks of an argument: what was read is closed, so it is  *)
(* all that can be reached, and every entry of it is done with.            *)
LEMMA WalksCollectAll ==
  ASSUME IInv, CoverInv, pc = "root", pending = <<>>, ~cancelled
  PROVE  \A n \in Names(argument) : Settled(n)
<1>0. TypeInv /\ todo = {} /\ ask = {} /\ ready = {} /\ Queued = {}
  <2>1. 1 .. Len(<<>>) = {}
    OBVIOUS
  <2> QED
    BY <2>1 DEF IInv, WalkInv, WalkIsOver, Queued
<1>1. argument \in 1 .. Len(args) /\ Is(args[argument], "dir") /\ args[argument] \in Nodes
  BY <1>0, InputTypes DEF CoverInv, WalkIsReached, InWalk
<1>2. PICK D \in SUBSET Nodes : CoveredBy(D)
  BY <1>0 DEF CoverInv, WalkIsCovered, StopIsError, InWalk
<1>3. {Resolved(args[argument])} \cup visited \subseteq D
  BY <1>0, <1>2 DEF CoveredBy, Ahead
<1>4. \A n \in Nodes : fs.parent[n] \in D => EntryIsHandled(D, n)
  BY <1>2 DEF CoveredBy
<1>5. ASSUME NEW d \in D, NEW e \in Nodes, Leads(argument, d, e)
      PROVE  e \in D
  <2>1. CASE /\ fs.parent[e] = d /\ fs.kind[e] = "dir" /\ e \notin fs.ignored
             /\ OnDevice(argument, e)
    BY <1>0, <1>4, <2>1 DEF EntryIsHandled
  <2>2. CASE /\ config.follow_symlinks
             /\ \E l \in Entries(d) : fs.kind[l] = "link" /\ fs.target[l] = e
             /\ fs.kind[e] = "dir" /\ OnDevice(argument, e)
    <3>1. PICK l \in Nodes : fs.parent[l] = d /\ fs.kind[l] = "link" /\ fs.target[l] = e
      BY <2>2 DEF Entries
    <3>2. Resolved(l) = e /\ Resolved(e) = e
      BY <2>2, <3>1 DEF Resolved
    <3>3. Is(l, "dir") /\ OnDevice(argument, l)
      BY <2>2, <3>2, TraversalAssumption DEF Is, OnDevice
    <3> QED
      BY <1>0, <1>3, <1>4, <2>2, <3>1, <3>2, <3>3 DEF EntryIsHandled
  <2> QED
    BY <1>5, <2>1, <2>2 DEF Leads
<1>6. Reached(argument) \subseteq D
  BY <1>3, <1>5, ReachedIsLeast
<1> SUFFICES ASSUME NEW n \in Names(argument) PROVE Settled(n)
  OBVIOUS
<1>7. ~Is(args[argument], "file")
  BY <1>1 DEF Is
<1>8. /\ n \in Nodes \ fs.ignored /\ fs.parent[n] \in D
      /\ IsWantedFile(argument, n)
  BY <1>6, <1>7 DEF Names, IsWantedFile
<1> QED
  BY <1>0, <1>4, <1>8 DEF EntryIsHandled

(* The calling thread between the walks. *)
LEMMA CollectCovers ==
  ASSUME IInv, CoverInv, Collect
  PROVE  CoverInv'
<1> USE DEF Return, walkVars
<1>0. /\ input' = input
      /\ TypeInv /\ EmitInv /\ OnDeviceOnly /\ WalkIsOver
      /\ WalkIsReached /\ EmittedIsWanted /\ SeenIsEmitted /\ StopIsError
      /\ WalkIsCovered /\ ArgumentsAreDone
  BY InputStays DEF IInv, WalkInv, CoverInv, Next, Caller
<1>1. CASE Begin \/ ArgumentsEnd \/ ArgumentFails \/ RootCancelled \/ (WalkEnd /\ pc' = "done")
  <2>1. /\ UNCHANGED <<cancelled, argument, seen, stop, walkError, emitted>>
        /\ pc' \in {"argument", "done"}
        /\ pc' = "argument" => pc = "begin" /\ result' = result
        /\ result' = "ok" => result = "ok" \/ argument > Len(args) \/ cancelled
    <3>1. CASE Begin \/ ArgumentsEnd \/ ArgumentFails \/ RootCancelled
      BY <3>1 DEF Begin, ArgumentsEnd, ArgumentFails, RootCancelled
    <3>2. CASE WalkEnd /\ pc' = "done"
      BY <1>0, <3>2 DEF WalkEnd, TypeInv
    <3> QED
      BY <1>1, <3>1, <3>2
  <2>2. EmittedIsWanted' /\ SeenIsEmitted' /\ \A m : Settled(m)' <=> Settled(m)
    BY <1>0, <2>1, QuietSettles
  <2>3. WalkIsReached' /\ WalkIsCovered' /\ StopIsError'
    BY <1>0, <2>1 DEF WalkIsReached, WalkIsCovered, StopIsError, InWalk
  <2>4. ArgumentsAreDone'
    BY <1>0, <2>1, <2>2, SameTree, SameWanted DEF ArgumentsAreDone
  <2> QED
    BY <2>2, <2>3, <2>4 DEF CoverInv
<1>2. CASE ArgumentFile
  <2>1. /\ pc = "argument" /\ argument <= Len(args)
        /\ Is(args[argument], "file") /\ Emit(args[argument])
        /\ argument' = argument + 1
        /\ UNCHANGED <<cancelled, pc, stop, walkError, result>>
    BY <1>2 DEF ArgumentFile
  <2>2. argument \in 1 .. Len(args) /\ args[argument] \in Nodes /\ args \in Seq(Nodes)
    BY <1>0, <2>1, InputTypes DEF TypeInv
  <2> PICK file \in Nodes : file = args[argument]
    BY <2>2
  <2>3. Names(argument) = {file} \ fs.ignored
    BY <2>1 DEF Names
  <2>4. file \notin fs.ignored => file \in Wanted
    BY <2>2, <2>3 DEF Wanted
  <2>5. /\ EmittedIsWanted' /\ SeenIsEmitted'
        /\ \A m \in Nodes : Settled(m) => Settled(m)'
        /\ file \notin fs.ignored => Settled(file)'
    BY <1>0, <2>1, <2>4, EmitSettles
  <2>6. \A k \in 1 .. Len(args) : k < argument + 1 => \A n \in Names(k) : Settled(n)' \/ cancelled
    <3> SUFFICES ASSUME NEW k \in 1 .. Len(args), k < argument + 1, NEW n \in Names(k), ~cancelled
                 PROVE  Settled(n)'
      OBVIOUS
    <3>1. CASE k = argument
      BY <2>3, <2>5, <3>1
    <3>2. CASE k # argument
      <4>1. k < argument
        BY <2>2, <3>2
      <4>2. n \in Nodes
        BY InputTypes, <1>0 DEF Names
      <4> QED
        BY <1>0, <2>5, <4>1, <4>2 DEF ArgumentsAreDone
    <3> QED
      BY <3>1, <3>2
  <2>7. ArgumentsAreDone'
    BY <1>0, <2>1, <2>2, <2>6, SameTree, SameWanted DEF ArgumentsAreDone
  <2>8. WalkIsReached' /\ WalkIsCovered' /\ StopIsError'
    BY <1>0, <2>1 DEF WalkIsReached, WalkIsCovered, StopIsError, InWalk
  <2> QED
    BY <2>5, <2>7, <2>8 DEF CoverInv
<1>3. CASE ArgumentDir
  <2> DEFINE dir == Resolved(args[argument])
  <2>1. /\ pc = "argument" /\ argument <= Len(args) /\ Is(args[argument], "dir")
        /\ pending' = <<dir>> /\ pc' = "root"
        /\ visited' \subseteq {dir}
        /\ UNCHANGED <<cancelled, argument, seen, root, ask, todo, ready, stop, walkError,
                       emitted, result>>
    BY <1>3 DEF ArgumentDir
  <2>2. argument \in 1 .. Len(args) /\ dir \in Reached(argument) /\ todo = {}
    <3>1. argument \in 1 .. Len(args)
      BY <1>0, <2>1, InputTypes DEF TypeInv
    <3> QED
      BY <1>0, <2>1, <3>1, ReachedAreDirs DEF WalkIsOver
  <2>3. Queued' = {dir}
    BY <2>1 DEF Queued
  <2>4. EmittedIsWanted' /\ SeenIsEmitted' /\ \A m : Settled(m)' <=> Settled(m)
    BY <1>0, <2>1, QuietSettles
  <2>5. WalkIsReached' /\ StopIsError'
    BY <1>0, <2>1, <2>2, <2>3, SameTree, SameWanted DEF WalkIsReached, StopIsError
  <2>6. CoveredBy({})'
    BY <1>0, <2>1, <2>3, SameTree, SameWanted DEF CoveredBy, Ahead
  <2>7. WalkIsCovered'
    BY <2>6 DEF WalkIsCovered
  <2>8. ArgumentsAreDone'
    BY <1>0, <2>1, <2>4, DoneStays
  <2> QED
    BY <2>4, <2>5, <2>7, <2>8 DEF CoverInv
<1>4. CASE RootsEnd
  <2>1. /\ pc = "root" /\ pending = <<>> /\ pc' = "argument" /\ argument' = argument + 1
        /\ UNCHANGED <<cancelled, seen, stop, walkError, emitted, result>>
    BY <1>4 DEF RootsEnd
  <2>2. EmittedIsWanted' /\ SeenIsEmitted' /\ \A m : Settled(m)' <=> Settled(m)
    BY <1>0, <2>1, QuietSettles
  <2>3. WalkIsReached' /\ WalkIsCovered' /\ StopIsError'
    BY <1>0, <2>1 DEF WalkIsReached, WalkIsCovered, StopIsError, InWalk
  <2>4. argument \in 1 .. Len(args)
    BY <1>0, <2>1 DEF WalkIsReached, InWalk
  <2>5. ArgumentsAreDone'
    <3> SUFFICES ASSUME ~cancelled
                 PROVE  /\ \A k \in 1 .. Len(args) : k < argument + 1 => \A n \in Names(k) : Settled(n)
                        /\ result = "ok" => argument + 1 > Len(args)
      BY <1>0, <2>1, <2>2, SameTree, SameWanted DEF ArgumentsAreDone
    <3>1. \A n \in Names(argument) : Settled(n)
      BY <2>1, WalksCollectAll
    <3>2. \A k \in 1 .. Len(args) : k < argument + 1 => k < argument \/ k = argument
      BY <2>4
    <3>3. result = "ok" => argument + 1 > Len(args)
      BY <1>0, <2>4, InputTypes DEF ArgumentsAreDone
    <3> QED
      BY <1>0, <3>1, <3>2, <3>3 DEF ArgumentsAreDone
  <2> QED
    BY <2>2, <2>3, <2>5 DEF CoverInv
<1>5. CASE RootBegin
  <2>1. /\ pc = "root" /\ pending # <<>> /\ pc' = "walk"
        /\ root' = Head(pending) /\ pending' = Tail(pending)
        /\ ask' = {Head(pending)} /\ ready' = {Head(pending)} /\ todo' = {}
        /\ stop' = FALSE /\ walkError' = "none"
        /\ UNCHANGED <<cancelled, argument, visited, seen, emitted, result>>
        /\ ~cancelled
    BY <1>5 DEF RootBegin
  <2>2. Queued' \cup {root'} = Queued
    <3>1. /\ Len(pending) \in Nat \ {0} /\ Len(Tail(pending)) = Len(pending) - 1
          /\ \A k \in 1 .. Len(Tail(pending)) : Tail(pending)[k] = pending[k + 1]
      BY <1>0, <2>1 DEF TypeInv
    <3>2. ASSUME NEW x \in Queued PROVE x \in Queued' \cup {root'}
      <4>1. PICK k \in 1 .. Len(pending) : x = pending[k]
        BY DEF Queued
      <4>2. CASE k = 1
        BY <1>0, <2>1, <4>1, <4>2 DEF TypeInv
      <4>3. CASE k # 1
        <5>1. k - 1 \in 1 .. Len(Tail(pending)) /\ Tail(pending)[k - 1] = pending[k]
          BY <3>1, <4>3
        <5> QED
          BY <2>1, <4>1, <5>1 DEF Queued
      <4> QED
        BY <4>2, <4>3
    <3>3. Queued' \cup {root'} \subseteq Queued
      <4>1. \A k \in 1 .. Len(Tail(pending)) : k + 1 \in 1 .. Len(pending)
        BY <3>1
      <4>2. Head(pending) = pending[1] /\ 1 \in 1 .. Len(pending)
        BY <1>0, <2>1, <3>1 DEF TypeInv
      <4> QED
        BY <2>1, <3>1, <4>1, <4>2 DEF Queued
    <3> QED
      BY <3>2, <3>3
  <2>3. EmittedIsWanted' /\ SeenIsEmitted' /\ \A m : Settled(m)' <=> Settled(m)
    BY <1>0, <2>1, QuietSettles
  <2>4. StopIsError'
    BY <2>1 DEF StopIsError
  <2>5. /\ argument \in 1 .. Len(args) /\ Is(args[argument], "dir")
        /\ Queued' \cup {root'} \subseteq Reached(argument)
    BY <1>0, <2>1, <2>2 DEF WalkIsReached, InWalk
  <2>6. fs.kind[root'] = "dir" /\ root' # Broken
    BY <1>0, <2>5, ReachedAreDirs, TraversalAssumption DEF Broken
  <2>7. WalkIsReached'
    BY <1>0, <2>1, <2>5, <2>6, SameTree, SameWanted DEF WalkIsReached
  <2>8. ASSUME NEW D \in SUBSET Nodes, CoveredBy(D) PROVE CoveredBy(D)'
    <3>1. todo = {} /\ ask = {} /\ ready = {}
      BY <1>0, <2>1 DEF WalkIsOver
    <3>2. Ahead' = Ahead
      BY <2>1, <2>2, <3>1 DEF Ahead
    <3>3. \A n \in Nodes : EntryIsHandled(D, n) => EntryIsHandled(D, n)'
      BY <1>0, <2>1, <2>3, <3>1, SameTree, SameWanted DEF EntryIsHandled
    <3> QED
      BY <1>0, <2>1, <2>8, <3>2, <3>3, SameTree, SameWanted DEF CoveredBy
  <2>9. WalkIsCovered'
    <3>1. \E D \in SUBSET Nodes : CoveredBy(D)
      BY <1>0, <2>1 DEF WalkIsCovered, InWalk, WalkIsOver, StopIsError
    <3> QED
      BY <2>8, <3>1 DEF WalkIsCovered
  <2>10. ArgumentsAreDone'
    BY <1>0, <2>1, <2>3, DoneStays
  <2> QED
    BY <2>3, <2>4, <2>7, <2>9, <2>10 DEF CoverInv
<1>6. CASE WalkEnd /\ pc' # "done"
  <2>1. /\ pc = "walk" /\ ask = {} /\ todo = {} /\ ready = {} /\ walkError = "none"
        /\ pc' = "root"
        /\ UNCHANGED <<cancelled, argument, pending, visited, seen, root, ask, todo, ready, stop,
                       walkError, emitted, result>>
    BY <1>6 DEF WalkEnd
  <2>2. EmittedIsWanted' /\ SeenIsEmitted' /\ \A m : Settled(m)' <=> Settled(m)
    BY <1>0, <2>1, QuietSettles
  <2>3. Queued' = Queued /\ Ahead' = Ahead
    BY <2>1 DEF Queued, Ahead
  <2>4. StopIsError' /\ WalkIsReached'
    BY <1>0, <2>1, <2>3, SameTree, SameWanted DEF StopIsError, WalkIsReached, InWalk
  <2>5. \A D, n : EntryIsHandled(D, n)' <=> EntryIsHandled(D, n)
    BY <1>0, <2>1, <2>2, SameTree, SameWanted DEF EntryIsHandled
  <2>6. \A D : CoveredBy(D) => CoveredBy(D)'
    BY <1>0, <2>1, <2>3, <2>5, SameTree, SameWanted DEF CoveredBy
  <2>7. WalkIsCovered'
    BY <1>0, <2>1, <2>6 DEF WalkIsCovered, InWalk
  <2>8. ArgumentsAreDone'
    BY <1>0, <2>1, <2>2, DoneStays
  <2> QED
    BY <2>2, <2>4, <2>7, <2>8 DEF CoverInv
<1> QED
  BY <1>1, <1>2, <1>3, <1>4, <1>5, <1>6 DEF Collect
(* The threads of the walk: what is descended into is reached, and what    *)
(* was read moves into the set.                                            *)
LEMMA WalkerCovers ==
  ASSUME IInv, CoverInv, Walker
  PROVE  CoverInv'
<1>0. /\ input' = input
      /\ TypeInv /\ WalkIsOver
      /\ WalkIsReached /\ EmittedIsWanted /\ SeenIsEmitted /\ StopIsError
      /\ WalkIsCovered /\ ArgumentsAreDone
  BY InputStays DEF IInv, WalkInv, CoverInv, Next
<1>1. PICK d \in Nodes : Descend(d) \/ Read(d)
  BY DEF Walker
<1>2. /\ UNCHANGED <<cancelled, pc, argument, pending, visited, seen, root, stop, walkError,
                     emitted, result>>
      /\ pc = "walk"
  BY <1>0, <1>1 DEF Descend, Read, WalkIsOver
<1>3. EmittedIsWanted' /\ SeenIsEmitted' /\ \A m : Settled(m)' <=> Settled(m)
  BY <1>0, <1>2, QuietSettles
<1>4. StopIsError' /\ ArgumentsAreDone'
  BY <1>0, <1>2, <1>3, DoneStays DEF StopIsError
<1>5. /\ argument \in 1 .. Len(args) /\ Is(args[argument], "dir")
      /\ Queued \cup todo \subseteq Reached(argument) /\ root \in Reached(argument)
      /\ \A n \in (ask \cup ready) \ {Broken} : n = root \/ fs.parent[n] \in Reached(argument)
      /\ \A e \in ask : fs.kind[e] = "dir"
      /\ Broken \notin Nodes /\ Queued' = Queued
  BY <1>0, <1>2, TraversalAssumption DEF WalkIsReached, InWalk, Broken, Queued
<1>6. CASE Descend(d)
  <2>1. /\ d \in ask /\ ask' = ask \ {d} /\ ready' = ready
        /\ todo' = IF /\ ~cancelled /\ ~stop
                      /\ d = root \/ (OnDevice(argument, d) /\ d \notin fs.ignored)
                   THEN todo \cup {d} ELSE todo
    BY <1>6 DEF Descend
  <2>2. todo' \subseteq Reached(argument)
    <3>1. CASE todo' = todo \/ d = root
      BY <1>5, <2>1, <3>1
    <3>2. CASE d # root /\ OnDevice(argument, d) /\ d \notin fs.ignored
      <4>1. fs.parent[d] \in Reached(argument) /\ Leads(argument, fs.parent[d], d)
        BY <1>5, <2>1, <3>2 DEF Leads
      <4> QED
        BY <1>5, <2>1, <4>1, ReachedIsLeast
    <3> QED
      BY <2>1, <3>1, <3>2
  <2>3. WalkIsReached'
    BY <1>0, <1>2, <1>5, <2>1, <2>2, SameTree, SameWanted DEF WalkIsReached
  <2>4. ASSUME ~cancelled, ~stop, NEW D \in SUBSET Nodes, CoveredBy(D)
        PROVE  CoveredBy(D)'
    <3>1. Ahead \subseteq Ahead'
      BY <1>2, <1>5, <2>1, <2>4 DEF Ahead
    <3>2. \A n \in Nodes : EntryIsHandled(D, n) => EntryIsHandled(D, n)'
      BY <1>0, <1>2, <1>3, <2>1, <2>4, SameTree, SameWanted DEF EntryIsHandled
    <3> QED
      BY <1>0, <1>2, <2>4, <3>1, <3>2, SameTree, SameWanted DEF CoveredBy
  <2>5. WalkIsCovered'
    <3> SUFFICES ASSUME ~cancelled, walkError = "none", Broken \notin ready
                 PROVE  (\E D \in SUBSET Nodes : CoveredBy(D))'
      BY <1>2, <2>1 DEF WalkIsCovered
    <3>1. \E D \in SUBSET Nodes : CoveredBy(D)
      BY <1>0, <1>2 DEF WalkIsCovered, InWalk
    <3> QED
      BY <1>0, <2>4, <3>1 DEF StopIsError
  <2> QED
    BY <1>3, <1>4, <2>3, <2>5 DEF CoverInv
<1>7. CASE Read(d)
  <2>1. /\ d \in todo /\ todo' = todo \ {d}
        /\ \/ /\ ready' = ready \cup Entries(d)
              /\ ask' = ask \cup {e \in Entries(d) : fs.kind[e] = "dir"}
           \/ ready' = ready \cup {Broken} /\ ask' = ask
    BY <1>7 DEF Read
  <2>2. \A e : e \in Entries(d) <=> e \in Nodes /\ fs.parent[e] = d
    BY DEF Entries
  <2>3. \A e \in (ask' \cup ready') \ {Broken} :
          e \in (ask \cup ready) \ {Broken} \/ fs.parent[e] = d
    BY <2>1, <2>2
  <2>4. \A e \in ask' : fs.kind[e] = "dir"
    BY <1>5, <2>1
  <2>5. WalkIsReached'
    BY <1>0, <1>2, <1>5, <2>1, <2>3, <2>4, SameTree, SameWanted DEF WalkIsReached
  <2>6. ASSUME Broken \notin ready', NEW D \in SUBSET Nodes, CoveredBy(D)
        PROVE  CoveredBy(D \cup {d})'
    <3>1. /\ ready' = ready \cup Entries(d)
          /\ ask' = ask \cup {e \in Entries(d) : fs.kind[e] = "dir"}
      BY <2>1, <2>6
    <3>2. D \cup Ahead \subseteq (D \cup {d}) \cup Ahead'
      BY <1>2, <1>5, <2>1, <3>1 DEF Ahead
    <3>3. \A n \in Nodes : EntryIsHandled(D, n) => EntryIsHandled(D \cup {d}, n)'
      BY <1>0, <1>2, <1>3, <2>1, <3>1, SameTree, SameWanted DEF EntryIsHandled
    <3>4. \A n \in Nodes : fs.parent[n] = d => EntryIsHandled(D \cup {d}, n)'
      BY <1>0, <2>2, <3>1, SameTree DEF EntryIsHandled
    <3>5. \A n \in Nodes : fs.parent[n] \in D \cup {d} => EntryIsHandled(D \cup {d}, n)'
      BY <2>6, <3>3, <3>4 DEF CoveredBy
    <3>6. {Resolved(args[argument])} \cup visited \subseteq (D \cup {d}) \cup Ahead'
      BY <2>6, <3>2 DEF CoveredBy
    <3> QED
      BY <1>0, <1>2, <3>5, <3>6, SameTree, SameWanted DEF CoveredBy
  <2>7. WalkIsCovered'
    <3> SUFFICES ASSUME ~cancelled, walkError = "none", Broken \notin ready'
                 PROVE  (\E D \in SUBSET Nodes : CoveredBy(D))'
      BY <1>2 DEF WalkIsCovered
    <3>1. PICK D \in SUBSET Nodes : CoveredBy(D)
      BY <1>0, <1>2, <2>1 DEF WalkIsCovered, InWalk
    <3>2. D \cup {d} \in SUBSET Nodes /\ CoveredBy(D \cup {d})'
      BY <2>6, <3>1
    <3> QED
      BY <3>2
  <2> QED
    BY <1>3, <1>4, <2>5, <2>7 DEF CoverInv
<1> QED
  BY <1>1, <1>6, <1>7

(* The calling thread in a walk: an entry that is taken is done with, or   *)
(* the walk ends in an error.                                              *)
LEMMA ConsumeCovers ==
  ASSUME IInv, CoverInv, NEW n \in ready, Consume(n)
  PROVE  CoverInv'
<1> USE DEF Working, Take, Fails
<1>0. /\ input' = input
      /\ TypeInv /\ WalkIsOver
      /\ WalkIsReached /\ EmittedIsWanted /\ SeenIsEmitted /\ StopIsError
      /\ WalkIsCovered /\ ArgumentsAreDone
  BY InputStays DEF IInv, WalkInv, CoverInv, Next, Caller
<1>1. /\ pc = "walk" /\ ready' = ready \ {n}
      /\ UNCHANGED <<cancelled, pc, argument, root, ask, todo, result>>
  BY <1>0 DEF Consume, Drain, TakeCancelled, TakeFails, TakeFile, TakeDir, TakeDirLink,
              TakeOther, WalkIsOver
<1>2. /\ argument \in 1 .. Len(args) /\ Is(args[argument], "dir")
      /\ Queued \cup todo \subseteq Reached(argument) /\ root \in Reached(argument)
      /\ \A m \in (ask \cup ready) \ {Broken} : m = root \/ fs.parent[m] \in Reached(argument)
      /\ \A e \in ask : fs.kind[e] = "dir"
  BY <1>0, <1>1 DEF WalkIsReached, InWalk
<1>3. fs.kind[root] = "dir"
  BY <1>0, <1>2, ReachedAreDirs
<1>4. ASSUME Queued' \subseteq Reached(argument)
      PROVE  WalkIsReached'
  BY <1>0, <1>1, <1>2, <1>4, SameTree, SameWanted DEF WalkIsReached
<1>5. CASE Drain(n) \/ TakeCancelled(n) \/ TakeFails(n)
  <2>1. /\ UNCHANGED <<pending, visited, seen, emitted>>
        /\ walkError' # "none" /\ (stop' <=> walkError' # "none")
    BY <1>0, <1>5 DEF Drain, TakeCancelled, TakeFails, StopIsError
  <2>2. EmittedIsWanted' /\ SeenIsEmitted' /\ \A m : Settled(m)' <=> Settled(m)
    BY <1>0, <2>1, QuietSettles
  <2>3. StopIsError' /\ WalkIsCovered'
    BY <1>1, <2>1 DEF StopIsError, WalkIsCovered
  <2>4. WalkIsReached'
    BY <1>2, <1>4, <2>1 DEF Queued
  <2>5. ArgumentsAreDone'
    BY <1>0, <1>1, <2>2, DoneStays
  <2> QED
    BY <2>2, <2>3, <2>4, <2>5 DEF CoverInv
<1>6. CASE TakeFile(n) \/ TakeDir(n) \/ TakeDirLink(n) \/ TakeOther(n)
  <2>1. /\ n \in Nodes \ {Broken} /\ walkError = "none" /\ ~cancelled
        /\ UNCHANGED <<stop, walkError>>
    BY <1>0, <1>6 DEF TakeFile, TakeDir, TakeDirLink, TakeOther, TypeInv
  <2>2. StopIsError'
    BY <1>0, <1>1, <2>1 DEF StopIsError
  \* What every such step comes down to.
  <2>3. ASSUME EmittedIsWanted', SeenIsEmitted',
               \A m \in Nodes : Settled(m) => Settled(m)',
               IsWantedFile(argument, n) /\ n \notin fs.ignored => Settled(n)',
               (/\ fs.kind[n] = "link" /\ config.follow_symlinks
                /\ Is(n, "dir") /\ OnDevice(argument, n)) => Resolved(n) \in visited',
               Queued \subseteq Queued', Queued' \subseteq Reached(argument),
               visited \subseteq visited', visited' \subseteq visited \cup Queued'
        PROVE  CoverInv'
    <3>1. ArgumentsAreDone'
      BY <1>0, <1>1, <2>3, DoneStays
    <3>2. WalkIsReached'
      BY <1>4, <2>3
    <3>3. ASSUME NEW D \in SUBSET Nodes, CoveredBy(D)
          PROVE  CoveredBy(D)'
      <4>1. Ahead \cup Queued' \subseteq Ahead'
        BY <1>1, <2>3 DEF Ahead
      <4>2. \A m \in Nodes : EntryIsHandled(D, m) => EntryIsHandled(D, m)'
        BY <1>0, <1>1, <2>3, SameTree, SameWanted DEF EntryIsHandled
      <4>3. {Resolved(args[argument])} \cup visited' \subseteq D \cup Ahead'
        BY <2>3, <3>3, <4>1 DEF CoveredBy
      <4> QED
        BY <1>0, <1>1, <3>3, <4>2, <4>3, SameTree, SameWanted DEF CoveredBy
    <3>4. WalkIsCovered'
      <4> SUFFICES ASSUME Broken \notin ready' PROVE (\E D \in SUBSET Nodes : CoveredBy(D))'
        BY DEF WalkIsCovered
      <4>1. Broken \notin ready
        BY <1>1, <2>1
      <4>2. PICK D \in SUBSET Nodes : CoveredBy(D)
        BY <1>0, <1>1, <2>1, <4>1 DEF WalkIsCovered, InWalk
      <4> QED
        BY <3>3, <4>2
    <3> QED
      BY <2>2, <2>3, <3>1, <3>2, <3>4 DEF CoverInv
  <2>4. CASE TakeFile(n)
    <3>1. /\ Emit(n) /\ UNCHANGED <<pending, visited>>
          /\ \/ fs.kind[n] = "file"
             \/ /\ fs.kind[n] = "link" /\ config.follow_symlinks
                /\ Is(n, "file") /\ OnDevice(argument, n)
      BY <2>4 DEF TakeFile
    <3>2. IsWantedFile(argument, n) /\ n # root /\ ~(fs.kind[n] = "link" /\ Is(n, "dir"))
      BY <1>3, <3>1 DEF IsWantedFile, Is
    <3>3. n \notin fs.ignored => n \in Wanted
      BY <1>0, <1>2, <2>1, <3>2, FileIsWanted
    <3>4. /\ EmittedIsWanted' /\ SeenIsEmitted'
          /\ \A m \in Nodes : Settled(m) => Settled(m)'
          /\ n \notin fs.ignored => Settled(n)'
      BY <1>0, <2>1, <3>1, <3>3, EmitSettles
    <3>5. Queued' = Queued
      BY <3>1 DEF Queued
    <3> QED
      BY <1>2, <2>3, <3>1, <3>2, <3>4, <3>5
  <2>5. CASE TakeDir(n) \/ TakeOther(n)
    <3>1. /\ UNCHANGED <<pending, visited, seen, emitted>>
          /\ \/ fs.kind[n] \in {"dir", "other"}
             \/ /\ fs.kind[n] = "link"
                /\ \/ ~config.follow_symlinks
                   \/ ~OnDevice(argument, n) \/ Is(n, "other")
      BY <2>5 DEF TakeDir, TakeOther
    <3>2. EmittedIsWanted' /\ SeenIsEmitted' /\ \A m : Settled(m)' <=> Settled(m)
      BY <1>0, <3>1, QuietSettles
    <3>3. /\ ~IsWantedFile(argument, n)
          /\ ~(/\ fs.kind[n] = "link" /\ config.follow_symlinks
               /\ Is(n, "dir") /\ OnDevice(argument, n))
      BY <3>1 DEF IsWantedFile, Is
    <3>4. Queued' = Queued
      BY <3>1 DEF Queued
    <3> QED
      BY <1>2, <2>3, <3>1, <3>2, <3>3, <3>4
  <2>6. CASE TakeDirLink(n)
    <3>1. /\ fs.kind[n] = "link" /\ config.follow_symlinks
          /\ Is(n, "dir") /\ OnDevice(argument, n)
          /\ IF Resolved(n) \in visited THEN UNCHANGED <<pending, visited>>
             ELSE /\ pending' = Append(pending, Resolved(n))
                  /\ visited' = visited \cup {Resolved(n)}
          /\ UNCHANGED <<seen, emitted>>
      BY <2>6 DEF TakeDirLink
    <3>2. EmittedIsWanted' /\ SeenIsEmitted' /\ \A m : Settled(m)' <=> Settled(m)
      BY <1>0, <3>1, QuietSettles
    <3>3. ~IsWantedFile(argument, n) /\ n # root
      BY <1>3, <3>1 DEF IsWantedFile, Is
    <3>4. Resolved(n) \in Reached(argument)
      <4>1. /\ Resolved(n) \in Nodes /\ Resolved(Resolved(n)) = Resolved(n)
            /\ fs.target[n] = Resolved(n) /\ fs.kind[Resolved(n)] = "dir"
        BY <1>0, <2>1, <3>1, ResolvedOnce DEF Is, Resolved
      <4>2. OnDevice(argument, Resolved(n))
        BY <3>1, <4>1 DEF OnDevice
      <4>3. Leads(argument, fs.parent[n], Resolved(n))
        BY <2>1, <3>1, <4>1, <4>2 DEF Leads, Entries
      <4> QED
        BY <1>2, <2>1, <3>3, <4>1, <4>3, ReachedIsLeast
    <3>5. /\ Queued \subseteq Queued' /\ Queued' \subseteq Queued \cup {Resolved(n)}
          /\ visited \subseteq visited' /\ visited' \subseteq visited \cup Queued'
          /\ Resolved(n) \in visited'
      <4>1. CASE Resolved(n) \in visited
        BY <3>1, <4>1 DEF Queued
      <4>2. CASE Resolved(n) \notin visited
        <5>1. /\ pending \in Seq(Nodes) /\ Resolved(n) \in Nodes
              /\ pending' = Append(pending, Resolved(n))
          BY <1>0, <1>2, <3>1, <3>4, <4>2, ReachedIsLeast DEF TypeInv
        <5>2. /\ Len(pending') = Len(pending) + 1 /\ Len(pending) \in Nat
              /\ pending'[Len(pending) + 1] = Resolved(n)
              /\ \A k \in 1 .. Len(pending) : pending'[k] = pending[k]
          BY <5>1
        <5>3. Queued' = Queued \cup {Resolved(n)}
          BY <5>2 DEF Queued
        <5> QED
          BY <3>1, <4>2, <5>3
      <4> QED
        BY <4>1, <4>2
    <3> QED
      BY <1>2, <2>3, <3>2, <3>3, <3>4, <3>5
  <2> QED
    BY <1>6, <2>4, <2>5, <2>6
<1> QED
  BY <1>5, <1>6 DEF Consume

(* What covers holds in every reachable state. *)
LEMMA CoverHolds == Init /\ [][Next]_vars => []CoverInv
<1>1. IInv /\ CoverInv /\ [Next]_vars => CoverInv'
  <2> SUFFICES ASSUME IInv, CoverInv, [Next]_vars PROVE CoverInv'
    OBVIOUS
  <2>1. CASE Cancel \/ UNCHANGED vars
    <3>1. /\ UNCHANGED <<input, pc, argument, pending, visited, seen, root, ask, todo, ready, stop,
                         walkError, emitted, result>>
          /\ (cancelled => cancelled') /\ (cancelled' = cancelled \/ cancelled')
      BY <2>1 DEF Cancel, vars, walkVars
    <3>2. EmittedIsWanted' /\ SeenIsEmitted' /\ \A m : Settled(m)' <=> Settled(m)
      BY <3>1, QuietSettles DEF CoverInv
    <3>3. Queued' = Queued /\ Ahead' = Ahead
      BY <3>1 DEF Queued, Ahead
    <3>4. StopIsError' /\ WalkIsReached'
      BY <3>1, <3>3, SameTree, SameWanted DEF CoverInv, StopIsError, WalkIsReached, InWalk
    <3>5. \A D, n : EntryIsHandled(D, n)' <=> EntryIsHandled(D, n)
      BY <3>1, <3>2, SameTree, SameWanted DEF EntryIsHandled
    <3>6. \A D : CoveredBy(D) => CoveredBy(D)'
      BY <3>1, <3>3, <3>5, SameTree, SameWanted DEF CoveredBy
    <3>7. WalkIsCovered'
      BY <3>1, <3>6 DEF CoverInv, WalkIsCovered, InWalk
    <3>8. ArgumentsAreDone'
      BY <3>1, <3>2, DoneStays DEF IInv, CoverInv
    <3> QED
      BY <3>2, <3>4, <3>7, <3>8 DEF CoverInv
  <2> QED
    BY <2>1, CollectCovers, ConsumeCovers, WalkerCovers DEF Next, Caller
<1> QED
  BY <1>1, InitCovers, InvariantHolds, PTL

(* An Ok that was not cut short by a cancellation comes with every wanted  *)
(* name and no other: of an inode with several links one name, once,       *)
(* unless copies are counted, and every other name at least once, in any   *)
(* tree and for any interleaving of the walk's threads (collect_paths,     *)
(* crawl.rs:161-240).  Of a regular file on another device it is not asked *)
(* with -F.                                                                *)
THEOREM CollectsExactly == Spec => []EmitsExactly
<1>1. IInv /\ CoverInv => EmitsExactly
  <2> SUFFICES ASSUME IInv, CoverInv, result = "ok", ~cancelled
               PROVE  /\ {n \in Nodes : emitted[n] > 0} \subseteq Wanted
                      /\ \A n \in Wanted :
                           LET copies == {m \in Wanted : Inode(m) = Inode(n) /\ emitted[m] > 0}
                           IN  IF config.count_hardlinks \/ ~Shared(n) THEN emitted[n] > 0
                               ELSE \E m \in copies : copies = {m} /\ emitted[m] = 1
    BY DEF EmitsExactly
  <2>0. TypeInv /\ EmittedIsFile /\ CopiesOnce
    BY DEF IInv, EmitInv
  <2>1. {n \in Nodes : emitted[n] > 0} \subseteq Wanted
    BY DEF CoverInv, EmittedIsWanted
  <2> SUFFICES ASSUME NEW n \in Wanted
               PROVE  LET copies == {m \in Wanted : Inode(m) = Inode(n) /\ emitted[m] > 0}
                      IN  IF config.count_hardlinks \/ ~Shared(n) THEN emitted[n] > 0
                          ELSE \E m \in copies : copies = {m} /\ emitted[m] = 1
    BY <2>1
  <2>2. PICK k \in 1 .. Len(args) : n \in Names(k)
    BY <2>0, InputTypes DEF Wanted
  <2>3. Settled(n)
    <3>1. argument \in Nat /\ argument > Len(args) /\ Len(args) \in Nat
      BY <2>0, InputTypes DEF CoverInv, ArgumentsAreDone, TypeInv
    <3> QED
      BY <2>2, <3>1 DEF CoverInv, ArgumentsAreDone
  <2>4. n \in Nodes /\ Is(n, "file")
    <3>1. n \in Nodes
      BY <2>0, <2>2, InputTypes DEF Names
    <3>2. fs.kind[n] = "file" => Is(n, "file")
      BY <3>1, TraversalAssumption DEF Is, Resolved
    <3> QED
      BY <2>2, <3>1, <3>2 DEF Names
  <2>5. CASE config.count_hardlinks \/ ~Shared(n)
    BY <2>3, <2>5 DEF Settled
  <2>6. CASE ~config.count_hardlinks /\ Shared(n)
    <3>1. PICK m \in Nodes : emitted[m] > 0 /\ Inode(m) = Inode(n)
      BY <2>3, <2>4 DEF Settled, CoverInv, SeenIsEmitted
    <3>2. m \in Wanted
      BY <2>1, <3>1
    <3>3. Shared(m)
      BY <2>0, <2>4, <2>6, <3>1, SharedByAll DEF EmittedIsFile
    <3>4. \A w \in Wanted : Inode(w) = Inode(n) /\ emitted[w] > 0 => w \in Nodes
      <4>1. \A j \in 1 .. Len(args) : Names(j) \subseteq Nodes
        BY <2>0, InputTypes DEF Names
      <4> QED
        BY <2>0, <4>1, InputTypes DEF Wanted
    <3>5. \A w \in Wanted : Inode(w) = Inode(n) /\ emitted[w] > 0 => w = m
      BY <2>0, <2>6, <3>1, <3>3, <3>4 DEF CopiesOnce
    <3>6. emitted[m] = 1
      BY <2>0, <2>6, <3>1, <3>3 DEF CopiesOnce
    <3> QED
      BY <2>6, <3>1, <3>2, <3>5, <3>6
  <2> QED
    BY <2>5, <2>6
<1> QED
  BY <1>1, InvariantHolds, CoverHolds, PTL DEF Spec
-----------------------------------------------------------------------------
(***************************************************************************)
(* No directory is walked twice for one argument, so that links that form  *)
(* a cycle cannot keep the collection going.                               *)
(***************************************************************************)
\* The directories that may still become the root of a walk.
Unwalked == Queued \cup IF config.follow_symlinks THEN Nodes \ visited ELSE {}

\* Within an argument they become fewer, by one with each walk that begins.
WalkedOnce ==
  [][InWalk => /\ Unwalked' \subseteq Unwalked
               /\ pc = "root" /\ pc' = "walk" => root' \in Unwalked \ Unwalked']_vars

\* What waits is different from each other and from what is being walked, and
\* was met; without -f nothing waits but the argument.
RootsDiffer ==
  InWalk =>
    /\ \A i, j \in 1 .. Len(pending) : pending[i] = pending[j] => i = j
    /\ config.follow_symlinks =>
         /\ Queued \subseteq visited
         /\ pc = "walk" => root \in visited \ Queued
    /\ ~config.follow_symlinks =>
         /\ Len(pending) <= 1
         /\ pc = "walk" => pending = <<>>

\* What a step does to the roots: nothing, unless it is the argument, a root
\* taken, or a link's directory met.
RootsStay ==
  /\ UNCHANGED <<pending, visited>>
  /\ InWalk' => /\ pc = "walk"  => pc' = "root" \/ (pc' = "walk" /\ root' = root)
                /\ pc # "walk" => pc = "root" /\ pc' = "root"

RootIsGiven ==
  /\ ~InWalk /\ pc' = "root"
  /\ \E d \in Nodes : pending' = <<d>> /\ visited' = IF config.follow_symlinks THEN {d} ELSE {}

RootIsTaken ==
  /\ pc = "root" /\ pc' = "walk" /\ pending # <<>>
  /\ root' = Head(pending) /\ pending' = Tail(pending) /\ visited' = visited

RootIsMet ==
  /\ pc = "walk" /\ pc' = "walk" /\ root' = root /\ config.follow_symlinks
  /\ \E d \in Nodes \ visited : pending' = Append(pending, d) /\ visited' = visited \cup {d}

LEMMA RootSteps ==
  ASSUME IInv, [Next]_vars
  PROVE  RootsStay \/ RootIsGiven \/ RootIsTaken \/ RootIsMet
<1>0. TypeInv /\ WalkIsOver
  BY DEF IInv, WalkInv
<1>1. CASE Begin \/ ArgumentsEnd \/ ArgumentFails \/ ArgumentFile \/ RootsEnd \/ RootCancelled
             \/ WalkEnd
  BY <1>0, <1>1 DEF Begin, ArgumentsEnd, ArgumentFails, ArgumentFile, RootsEnd, RootCancelled,
                    WalkEnd, Return, RootsStay, InWalk, walkVars
<1>2. CASE ArgumentDir
  <2>1. args[argument] \in Nodes
    BY <1>0, <1>2, InputTypes DEF ArgumentDir, TypeInv
  <2>2. Resolved(args[argument]) \in Nodes
    BY <1>0, <1>2, <2>1, ResolvedOnce DEF ArgumentDir
  <2> QED
    BY <1>2, <2>2 DEF ArgumentDir, RootIsGiven, InWalk
<1>3. CASE RootBegin
  BY <1>3 DEF RootBegin, RootIsTaken
<1>4. ASSUME NEW n \in ready, Consume(n)
      PROVE  RootsStay \/ RootIsMet
  <2>1. pc = "walk" /\ UNCHANGED <<pc, root>>
    BY <1>0, <1>4 DEF Consume, Drain, TakeCancelled, TakeFails, Fails, TakeFile, TakeDir,
                      TakeDirLink, TakeOther, Working, Take
  <2>2. CASE UNCHANGED <<pending, visited>>
    BY <2>1, <2>2 DEF RootsStay
  <2>3. CASE TakeDirLink(n) /\ Resolved(n) \notin visited
    <3>1. n \in Nodes
      BY <1>0, <2>3 DEF TakeDirLink, TypeInv
    <3>2. Resolved(n) \in Nodes
      BY <1>0, <2>3, <3>1, ResolvedOnce DEF TakeDirLink
    <3> QED
      BY <2>1, <2>3, <3>2 DEF TakeDirLink, RootIsMet
  <2> QED
    BY <1>4, <2>2, <2>3 DEF Consume, Drain, TakeCancelled, TakeFails, Fails, TakeFile, TakeDir,
                            TakeDirLink, TakeOther
<1>5. CASE Walker \/ Cancel \/ UNCHANGED vars
  <2>1. UNCHANGED <<pc, root, pending, visited>>
    BY <1>5 DEF Walker, Descend, Read, Cancel, vars, walkVars
  <2> QED
    BY <2>1 DEF RootsStay, InWalk
<1> QED
  BY <1>1, <1>2, <1>3, <1>4, <1>5 DEF Next, Caller, Collect

\* The roots are different, and what may still be one only becomes less.
LEMMA RootsKeep ==
  ASSUME IInv, RootsDiffer, [Next]_vars
  PROVE  /\ RootsDiffer'
         /\ InWalk => /\ Unwalked' \subseteq Unwalked
                      /\ pc = "root" /\ pc' = "walk" => root' \in Unwalked \ Unwalked'
<1>0. config' = config /\ pending \in Seq(Nodes) /\ visited \subseteq Nodes
  BY InputStays, SameTree DEF IInv, TypeInv
<1>1. CASE RootsStay
  BY <1>0, <1>1 DEF RootsStay, RootsDiffer, Unwalked, Queued, InWalk
<1>2. CASE RootIsGiven
  <2>1. PICK d \in Nodes : pending' = <<d>> /\ visited' = IF config.follow_symlinks THEN {d} ELSE {}
    BY <1>2 DEF RootIsGiven
  <2>2. /\ ~InWalk /\ pc' = "root" /\ Len(pending') = 1
        /\ \A k \in 1 .. Len(pending') : k = 1 /\ pending'[k] = d
    BY <1>2, <2>1 DEF RootIsGiven
  <2> QED
    BY <1>0, <2>1, <2>2 DEF RootsDiffer, Queued
<1>3. CASE RootIsTaken
  <2>1. /\ InWalk /\ pc' = "walk" /\ pending # <<>>
        /\ root' = Head(pending) /\ pending' = Tail(pending) /\ visited' = visited
    BY <1>3 DEF RootIsTaken, InWalk
  <2>2. PICK L \in Nat : Len(pending) = L + 1
    BY <1>0, <2>1
  <2>3. /\ root' = pending[1] /\ Len(pending') = L
        /\ \A k \in 1 .. L : pending'[k] = pending[k + 1] /\ k + 1 \in 1 .. L + 1 /\ k + 1 # 1
    BY <1>0, <2>1, <2>2
  <2>4. \A i, j \in 1 .. L + 1 : pending[i] = pending[j] => i = j
    BY <2>1, <2>2 DEF RootsDiffer
  <2>5. /\ \A i, j \in 1 .. L : pending'[i] = pending'[j] => i = j
        /\ root' \in Queued /\ root' \notin Queued' /\ Queued' \subseteq Queued
    BY <2>2, <2>3, <2>4 DEF Queued
  <2>6. config.follow_symlinks => Queued \subseteq visited
    BY <2>1 DEF RootsDiffer
  <2>7. ~config.follow_symlinks => Len(pending') <= 1 /\ pending' = <<>>
    <3>1. ~config.follow_symlinks => L = 0
      BY <2>1, <2>2 DEF RootsDiffer
    <3> QED
      BY <1>0, <2>1, <2>3, <3>1
  <2>8. Unwalked' \subseteq Unwalked /\ root' \in Unwalked \ Unwalked'
    BY <1>0, <2>1, <2>5, <2>6 DEF Unwalked
  <2>9. RootsDiffer'
    BY <1>0, <2>1, <2>3, <2>5, <2>6, <2>7 DEF RootsDiffer
  <2> QED
    BY <2>8, <2>9
<1>4. CASE RootIsMet
  <2>1. PICK d \in Nodes \ visited : pending' = Append(pending, d) /\ visited' = visited \cup {d}
    BY <1>4 DEF RootIsMet
  <2>2. InWalk /\ pc = "walk" /\ pc' = "walk" /\ root' = root /\ config.follow_symlinks
    BY <1>4 DEF RootIsMet, InWalk
  <2>3. PICK L \in Nat : L = Len(pending)
    BY <1>0
  <2>4. /\ Len(pending') = L + 1 /\ pending'[L + 1] = d
        /\ \A k \in 1 .. L : pending'[k] = pending[k] /\ k \in 1 .. L + 1
        /\ \A k \in 1 .. L + 1 : k \in 1 .. L \/ k = L + 1
        /\ L + 1 \in 1 .. L + 1
    BY <1>0, <2>1, <2>3
  <2>5. /\ \A i, j \in 1 .. L : pending[i] = pending[j] => i = j
        /\ Queued \subseteq visited /\ root \in visited \ Queued
    BY <2>2, <2>3 DEF RootsDiffer
  <2>6. Queued' = Queued \cup {d}
    BY <2>3, <2>4 DEF Queued
  <2>7. \A k \in 1 .. L : pending[k] # d
    BY <2>1, <2>3, <2>5 DEF Queued
  <2>8. \A i, j \in 1 .. L + 1 : pending'[i] = pending'[j] => i = j
    BY <2>4, <2>5, <2>7
  <2>9. RootsDiffer'
    BY <1>0, <2>1, <2>2, <2>4, <2>5, <2>6, <2>8 DEF RootsDiffer
  <2> QED
    BY <1>0, <2>1, <2>2, <2>6, <2>9 DEF Unwalked
<1> QED
  BY <1>1, <1>2, <1>3, <1>4, RootSteps

(* Of the directories that may still be a root for an argument, each walk  *)
(* takes one, and none comes back, in any tree and whatever links there    *)
(* are (the set visited, crawl.rs:276-278 and 352).                        *)
THEOREM WalksDiffer == Spec => WalkedOnce
<1>1. Init => RootsDiffer
  BY DEF Init, RootsDiffer, InWalk
<1>2. IInv /\ RootsDiffer /\ [Next]_vars =>
        /\ RootsDiffer'
        /\ InWalk => /\ Unwalked' \subseteq Unwalked
                     /\ pc = "root" /\ pc' = "walk" => root' \in Unwalked \ Unwalked'
  BY RootsKeep
<1> QED
  BY <1>1, <1>2, InvariantHolds, PTL DEF Spec, WalkedOnce
=============================================================================
