------------------------------ MODULE Traversal ------------------------------
(***************************************************************************)
(* Which files of a tree are collected: collect_paths, walk_dir_entries    *)
(* and the filters (crates/pagers-core/src/crawl.rs).  The calling thread  *)
(* takes the arguments in turn; for a directory it starts a walk, whose    *)
(* threads read directories and ask whether to descend, and consumes the   *)
(* entries in whatever order they come.  A link to a directory starts a    *)
(* walk of its own later.                                                  *)
(*                                                                         *)
(* dua_core::walk and the patterns of the ignore crate are external: the   *)
(* walk delivers each entry of each directory it descended into once and   *)
(* never follows a link; a pattern is the set of the names it matches.     *)
(***************************************************************************)
EXTENDS Naturals, Sequences, FiniteSets

CONSTANTS
  Nodes,         \* the directory entries
  Nowhere,       \* parent of a root directory, target of a dangling link
  FileSystems,   \* the file systems to walk
  Configs,       \* the CrawlConfigs
  Arguments      \* the paths given, sequences of nodes

Kinds == {"file", "dir", "link", "other"}

ASSUME TraversalAssumption ==
  /\ Nowhere \notin Nodes
  /\ \A f \in FileSystems :
       /\ f.kind \in [Nodes -> Kinds] /\ f.parent \in [Nodes -> Nodes \cup {Nowhere}]
       /\ f.target \in [Nodes -> Nodes \cup {Nowhere}] /\ f.ignored \subseteq Nodes
       /\ {DOMAIN f.device, DOMAIN f.inode} = {Nodes}
  /\ Configs \subseteq [follow_symlinks : BOOLEAN, single_filesystem : BOOLEAN,
                        count_hardlinks : BOOLEAN]
  /\ \A a \in Arguments : a \in Seq(Nodes)

VARIABLES
  input,         \* the file system, the configuration and the arguments
  cancelled,     \* the token
  pc,            \* "begin", "argument", "root", "walk" or "done"
  argument,      \* place of the argument in hand
  root,          \* the directory in whose walk we are
  pending,       \* the directories still to be walked for this argument
  visited,       \* those already met, when links are followed
  seen,          \* seen_inodes
  ask,           \* directories found, not yet asked about
  todo,          \* directories to descend into
  ready,         \* entries delivered and not consumed
  stop,          \* walk_stop
  walkError,     \* walk_error: "none", "io" or "cancelled"
  emitted,       \* how often each entry was emitted, up to Many
  total_dirs,    \* the counter of directories, up to Many
  result         \* "none", "ok", "io" or "cancelled"

walkVars == <<root, ask, todo, ready, stop, walkError>>
vars     == <<input, cancelled, pc, argument, pending, visited, seen, walkVars, emitted,
              total_dirs, result>>

fs     == input.fs
config == input.config
args   == input.args

Many == 2                    \* the counters count one, two, many
More(n) == IF n < Many THEN n + 1 ELSE n

Broken == Nowhere            \* an entry that is an error of the walk

-----------------------------------------------------------------------------
\* The file system, as stat and readdir show it.
Resolved(n) == IF fs.kind[n] = "link" THEN fs.target[n] ELSE n
Entries(d)  == {n \in Nodes : fs.parent[n] = d}
Is(n, kind) == Resolved(n) # Nowhere /\ fs.kind[Resolved(n)] = kind

\* metadata.dev() and ino(), and nlink() > 1
Inode(n)  == <<fs.device[Resolved(n)], fs.inode[Resolved(n)]>>
Shared(n) == \E m \in Nodes \ {Resolved(n)} : fs.kind[m] = "file" /\ Inode(m) = Inode(n)

\* On the device of the k-th argument, where that matters.
OnDevice(k, n) ==
  config.single_filesystem => fs.device[Resolved(n)] = fs.device[Resolved(args[k])]

\* Without -f what becomes of a link given as an argument is left to the walk.
Init ==
  /\ input \in [fs : FileSystems, config : Configs, args : Arguments]
  /\ \A k \in DOMAIN args : fs.kind[args[k]] = "link" /\ Is(args[k], "dir")
                              => config.follow_symlinks
  /\ cancelled = FALSE
  /\ pc = "begin" /\ argument = 1
  /\ root = Nowhere /\ pending = <<>> /\ visited = {} /\ seen = {}
  /\ ask = {} /\ todo = {} /\ ready = {} /\ stop = FALSE /\ walkError = "none"
  /\ emitted = [n \in Nodes |-> 0] /\ total_dirs = 0
  /\ result = "none"

Cancel ==
  /\ ~cancelled /\ pc # "done"
  /\ cancelled' = TRUE
  /\ UNCHANGED <<input, pc, argument, pending, visited, seen, walkVars, emitted, total_dirs,
                 result>>

Return(r) ==
  /\ pc' = "done" /\ result' = r
  /\ UNCHANGED <<input, cancelled, argument, pending, visited, seen, walkVars, emitted,
                 total_dirs>>

-----------------------------------------------------------------------------
\* Mutant of Emit: the inode is taken before the name is looked at.
EmitTakesInodeFirst(n) ==
  LET i     == Inode(n)
      first == config.count_hardlinks \/ ~Shared(n) \/ i \notin seen
  IN  /\ emitted' = IF first /\ n \notin fs.ignored
                    THEN [emitted EXCEPT ![n] = More(@)] ELSE emitted
      /\ seen' = IF ~config.count_hardlinks /\ Shared(n) THEN seen \cup {i} ELSE seen

\* path_allowed, file_allowed and emit for an entry that is a regular file or a
\* link to one: a name that is filtered out does not use up its inode.
Emit(n) ==
  LET i       == Inode(n)
      dedup   == ~config.count_hardlinks /\ Shared(n)
      allowed == n \notin fs.ignored /\ ~(dedup /\ i \in seen)
  IN  /\ emitted' = IF allowed THEN [emitted EXCEPT ![n] = More(@)] ELSE emitted
      /\ seen' = IF allowed /\ dedup THEN seen \cup {i} ELSE seen

\* collect_paths up to its loop: the token, then the batch file.
Begin ==
  /\ pc = "begin"
  /\ \/ cancelled /\ Return("cancelled")
     \/ ~cancelled /\ Return("io")
     \/ /\ ~cancelled
        /\ pc' = "argument"
        /\ UNCHANGED <<input, cancelled, argument, pending, visited, seen, walkVars, emitted,
                       total_dirs, result>>

\* The loop ends without an error when the token is set.
ArgumentsEnd ==
  /\ pc = "argument"
  /\ argument > Len(args) \/ cancelled
  /\ Return("ok")

ArgumentFails ==
  /\ pc = "argument" /\ argument <= Len(args) /\ ~cancelled
  /\ Return("io")

ArgumentFile ==
  /\ pc = "argument" /\ argument <= Len(args) /\ ~cancelled
  /\ Is(args[argument], "file")
  /\ Emit(args[argument])
  /\ argument' = argument + 1
  /\ UNCHANGED <<input, cancelled, pc, pending, visited, walkVars, total_dirs, result>>

\* A directory; walk_dir_entries up to its loop.
ArgumentDir ==
  /\ pc = "argument" /\ argument <= Len(args) /\ ~cancelled
  /\ Is(args[argument], "dir")
  /\ total_dirs' = More(total_dirs)
  /\ pending' = <<Resolved(args[argument])>>
  /\ visited' = IF config.follow_symlinks THEN {Resolved(args[argument])} ELSE {}
  /\ pc' = "root"
  /\ UNCHANGED <<input, cancelled, argument, seen, walkVars, emitted, result>>

-----------------------------------------------------------------------------
\* The outer loop of walk_dir_entries: the next root, and a walk of it.
RootsEnd ==
  /\ pc = "root" /\ pending = <<>>
  /\ pc' = "argument" /\ argument' = argument + 1
  /\ UNCHANGED <<input, cancelled, pending, visited, seen, walkVars, emitted, total_dirs, result>>

RootCancelled ==
  /\ pc = "root" /\ pending # <<>> /\ cancelled
  /\ Return("cancelled")

RootBegin ==
  /\ pc = "root" /\ pending # <<>> /\ ~cancelled
  /\ root' = Head(pending) /\ pending' = Tail(pending)
  /\ ask' = {Head(pending)} /\ ready' = {Head(pending)} /\ todo' = {}
  /\ stop' = FALSE /\ walkError' = "none"
  /\ pc' = "walk"
  /\ UNCHANGED <<input, cancelled, argument, visited, seen, emitted, total_dirs, result>>

\* A thread of the walk asks whether to descend.
Descend(d) ==
  /\ d \in ask
  /\ ask' = ask \ {d}
  /\ todo' = IF /\ ~cancelled /\ ~stop
                /\ d = root \/ (OnDevice(argument, d) /\ d \notin fs.ignored)
             THEN todo \cup {d} ELSE todo
  /\ UNCHANGED <<input, cancelled, pc, argument, pending, visited, seen, root, ready, stop,
                 walkError, emitted, total_dirs, result>>

\* A thread of the walk reads a directory, or fails to.
Read(d) ==
  /\ d \in todo
  /\ todo' = todo \ {d}
  /\ \/ /\ ready' = ready \cup Entries(d)
        /\ ask' = ask \cup {e \in Entries(d) : fs.kind[e] = "dir"}
     \/ ready' = ready \cup {Broken} /\ UNCHANGED ask
  /\ UNCHANGED <<input, cancelled, pc, argument, pending, visited, seen, root, stop, walkError,
                 emitted, total_dirs, result>>

-----------------------------------------------------------------------------
\* The inner loop: the calling thread takes an entry.

Take(n) ==
  /\ pc = "walk" /\ n \in ready
  /\ ready' = ready \ {n}
  /\ UNCHANGED <<input, cancelled, pc, argument, root, ask, todo, result>>

\* Mutant of Working: entries are handled also after an error.
WorkingOn(n) == Take(n) /\ ~cancelled

\* An entry that is looked at: no error so far, and not cancelled.
Working(n) == Take(n) /\ walkError = "none" /\ ~cancelled

\* After an error the rest is drained.
Drain(n) ==
  /\ Take(n) /\ walkError # "none"
  /\ UNCHANGED <<pending, visited, seen, stop, walkError, emitted, total_dirs>>

Fails(n, error) ==
  /\ Take(n) /\ walkError = "none"
  /\ stop' = TRUE /\ walkError' = error
  /\ UNCHANGED <<pending, visited, seen, emitted, total_dirs>>

TakeCancelled(n) == cancelled /\ Fails(n, "cancelled")

\* The walk's own error, metadata that cannot be had, a dangling link, an emit
\* that fails.
TakeFails(n) == ~cancelled /\ Fails(n, "io")

TakeFile(n) ==
  /\ Working(n) /\ n # Broken
  /\ \/ fs.kind[n] = "file"
     \/ /\ fs.kind[n] = "link" /\ config.follow_symlinks
        /\ Is(n, "file") /\ OnDevice(argument, n)
  /\ Emit(n)
  /\ UNCHANGED <<pending, visited, stop, walkError, total_dirs>>

\* A directory is counted, and its entries come by themselves if they come.
TakeDir(n) ==
  /\ Working(n) /\ n # Broken
  /\ fs.kind[n] = "dir"
  /\ total_dirs' = IF n = root THEN total_dirs ELSE More(total_dirs)
  /\ UNCHANGED <<pending, visited, seen, stop, walkError, emitted>>

\* Mutant of TakeDirLink: the directories met are not remembered.
TakeDirLinkForgets(n) ==
  /\ Working(n) /\ n # Broken
  /\ fs.kind[n] = "link" /\ config.follow_symlinks
  /\ Is(n, "dir") /\ OnDevice(argument, n)
  /\ total_dirs' = More(total_dirs)
  /\ IF Resolved(n) \in visited THEN UNCHANGED pending
     ELSE pending' = Append(pending, Resolved(n))
  /\ UNCHANGED <<visited, seen, stop, walkError, emitted>>

\* A link to a directory: a root of its own, unless it was met before.
TakeDirLink(n) ==
  /\ Working(n) /\ n # Broken
  /\ fs.kind[n] = "link" /\ config.follow_symlinks
  /\ Is(n, "dir") /\ OnDevice(argument, n)
  /\ total_dirs' = More(total_dirs)
  /\ IF Resolved(n) \in visited THEN UNCHANGED <<pending, visited>>
     ELSE /\ pending' = Append(pending, Resolved(n))
          /\ visited' = visited \cup {Resolved(n)}
  /\ UNCHANGED <<seen, stop, walkError, emitted>>

\* A link that is not followed, or leads off the device or to something else;
\* an entry that is neither file nor directory.
TakeOther(n) ==
  /\ Working(n) /\ n # Broken
  /\ \/ fs.kind[n] = "other"
     \/ /\ fs.kind[n] = "link"
        /\ \/ ~config.follow_symlinks
           \/ Resolved(n) # Nowhere /\ (~OnDevice(argument, n) \/ Is(n, "other"))
  /\ UNCHANGED <<pending, visited, seen, stop, walkError, emitted, total_dirs>>

WalkEnd ==
  /\ pc = "walk" /\ ask = {} /\ todo = {} /\ ready = {}
  /\ IF walkError # "none" THEN Return(walkError)
     ELSE /\ pc' = "root"
          /\ UNCHANGED <<input, cancelled, argument, pending, visited, seen, walkVars, emitted,
                         total_dirs, result>>

-----------------------------------------------------------------------------
Collect == Begin \/ ArgumentsEnd \/ ArgumentFails \/ ArgumentFile \/ ArgumentDir
             \/ RootsEnd \/ RootCancelled \/ RootBegin \/ WalkEnd

Consume(n) == Drain(n) \/ TakeCancelled(n) \/ TakeFails(n) \/ TakeFile(n) \/ TakeDir(n)
                \/ TakeDirLink(n) \/ TakeOther(n)

Caller == Collect \/ \E n \in ready : Consume(n)
Walker == \E d \in Nodes : Descend(d) \/ Read(d)

Next == Caller \/ Walker \/ Cancel

\* The caller and the walk's threads are scheduled; nobody has to cancel.
Spec == Init /\ [][Next]_vars /\ WF_vars(Caller) /\ WF_vars(Walker)

-----------------------------------------------------------------------------
\* What ought to be collected, from the tree alone: the directories reached
\* from the k-th argument through directories and links, and the names of
\* files in them.
Leads(k, d, e) ==
  \/ fs.parent[e] = d /\ fs.kind[e] = "dir" /\ e \notin fs.ignored /\ OnDevice(k, e)
  \/ /\ config.follow_symlinks
     /\ \E l \in Entries(d) : fs.kind[l] = "link" /\ fs.target[l] = e
     /\ fs.kind[e] = "dir" /\ OnDevice(k, e)

Reached(k) ==   \* the least set with the argument that leads nowhere else
  LET closed == {S \in SUBSET Nodes :
                   /\ Resolved(args[k]) \in S
                   /\ \A d \in S, e \in Nodes : Leads(k, d, e) => e \in S}
  IN  {n \in Nodes : \A S \in closed : n \in S}

Names(k) ==
  IF Is(args[k], "file") THEN {args[k]} \ fs.ignored
  ELSE LET reached == Reached(k)
       IN  {n \in Nodes \ fs.ignored :
              /\ fs.parent[n] \in reached
              /\ \/ fs.kind[n] = "file"
                 \/ /\ fs.kind[n] = "link" /\ config.follow_symlinks
                    /\ Is(n, "file") /\ OnDevice(k, n)}

Wanted == UNION {Names(k) : k \in DOMAIN args}

\* Regular files that are on the device of no argument.  In a walked directory
\* the code collects them also with single_filesystem, as only directories and
\* the targets of links are held against the device (crawl.rs:302, 344, 385);
\* src/README.md:97 says of -F "Stay on the same filesystem".
Foreign ==
  {n \in Nodes : fs.kind[n] = "file" /\ \A k \in DOMAIN args : ~OnDevice(k, n)}

\* Collected is what ought to be, in whatever order the threads of the walk
\* deliver it: every wanted name at least once and no other; and of the wanted
\* names of an inode with several links exactly one, once, unless copies are
\* counted; a name that is filtered out does not hide another.  A file of a single
\* link that two arguments, two roots or a link of its own lead to comes more than
\* once: only an inode with nlink > 1 is remembered.  Whether -F ought to take a
\* foreign file is left open, as code and documentation disagree: the property
\* asks for none, and allows those of walked directories.  Only a cancellation,
\* which the caller checks for again, may cut an Ok short.
EmitsExactly ==
  (result = "ok" /\ ~cancelled) =>
    LET wanted == Wanted IN
    /\ {n \in Nodes : emitted[n] > 0} \subseteq wanted
    /\ \A n \in wanted \ Foreign :
         LET copies == {m \in wanted : Inode(m) = Inode(n) /\ emitted[m] > 0}
         IN  IF config.count_hardlinks \/ ~Shared(n) THEN emitted[n] > 0
             ELSE \E m \in copies : copies = {m} /\ emitted[m] = 1

\* From the first error or cancellation to the end of a walk nothing more is
\* emitted or queued and the error stays the first, however much the threads
\* deliver before they notice.
DrainIsSilent ==
  [][(pc = "walk" /\ walkError # "none")
       => UNCHANGED <<emitted, seen, pending, visited, walkError>>]_vars

\* The collection ends, also in a tree whose links form cycles.
WalkTerminates == <>(pc = "done")
=============================================================================
