------------------------------- MODULE TuiApp -------------------------------
(***************************************************************************)
(* What the TUI knows of the files (crates/pagers-tui/src/app.rs): the     *)
(* list, the map from file ids to places in it, and what of it is kept and *)
(* shown.  Events of one file come in the order in which its worker sends  *)
(* them (EventProtocol of FileProcessing); those of different files        *)
(* interleave as they please.                                              *)
(***************************************************************************)
EXTENDS Naturals, Sequences, FiniteSets, SequencesExt

CONSTANTS
  Ids,          \* the files, in the order of their paths
  MaxPages,     \* bound on their sizes
  MaxDisplay    \* MAX_DISPLAY_FILES

ASSUME TuiAppAssumption ==
  /\ Ids \subseteq Nat
  /\ MaxPages \in Nat \ {0}
  /\ MaxDisplay \in Nat \ {0}

VARIABLES
  files,       \* the list, of records with the file's id, size, residency and state
  index,       \* file_index, a partial function from Ids
  running,     \* history: files that were started and are not done
  finished     \* history: files that were done, with their sizes

vars == <<files, index, running, finished>>

Init ==
  /\ files = <<>> /\ index = <<>>
  /\ running = {} /\ finished = {}

File == [id : Ids, total : 1 .. MaxPages, residency : SUBSET (1 .. MaxPages),
         resident : 0 .. MaxPages, done : BOOLEAN]

Put(i, n) == [j \in DOMAIN index \cup {i} |-> IF j = i THEN n ELSE index[j]]

-----------------------------------------------------------------------------
\* FileStart.
Start(i, total, residency) ==
  /\ i \notin running /\ \A f \in finished : f.id # i
  /\ index' = Put(i, Len(files) + 1)
  /\ files' = Append(files, [id |-> i, total |-> total, residency |-> residency,
                             resident |-> Cardinality(residency), done |-> FALSE])
  /\ running' = running \cup {i}
  /\ UNCHANGED finished

\* Mutant of Walked: pages already counted are counted again.
WalkedTwice(f, pages, resident) ==
  [f EXCEPT !.residency = IF resident THEN @ \cup pages ELSE @ \ pages,
            !.resident = IF resident THEN @ + Cardinality(pages)
                         ELSE @ - Cardinality(pages \cap f.residency)]

\* The pages of f become resident or not, and the count follows: what was set
\* among them is taken off, what is set now is added.
Walked(f, pages, resident) ==
  [f EXCEPT !.residency = IF resident THEN @ \cup pages ELSE @ \ pages,
            !.resident = @ - Cardinality(pages \cap f.residency)
                           + (IF resident THEN Cardinality(pages) ELSE 0)]

\* FileProgress, whose end is cut off at the size of the file.
Progress(i, offset, count, resident) ==
  /\ i \in running
  /\ LET n == index[i]
         end == IF offset + count > files[n].total THEN files[n].total ELSE offset + count
     IN  files' = [files EXCEPT ![n] = Walked(@, (offset + 1) .. end, resident)]
  /\ UNCHANGED <<index, running, finished>>

\* The order by size, then by path, in which a smaller file is dropped first.
Smaller(f, g) == f.total < g.total \/ (f.total = g.total /\ f.id > g.id)

\* The files that are done among those of a list, and the smallest of them.
DoneIn(list) == {n \in DOMAIN list : list[n].done}
IsSmallest(list, r) == \A m \in DoneIn(list) \ {r} : Smaller(list[r], list[m])

\* Mutant of Trim: the places behind the removed file are not moved up.
TrimKeepsIndex(list) ==
  IF Cardinality(DoneIn(list)) <= MaxDisplay
  THEN files' = list /\ UNCHANGED index
  ELSE \E r \in DoneIn(list) :
         /\ IsSmallest(list, r)
         /\ files' = RemoveAt(list, r)
         /\ index' = [j \in {j \in DOMAIN index : index[j] # r} |-> index[j]]

\* Mutant of Trim: the largest is dropped.
TrimLargest(list) ==
  IF Cardinality(DoneIn(list)) <= MaxDisplay
  THEN files' = list /\ UNCHANGED index
  ELSE \E r \in DoneIn(list) :
         /\ \A m \in DoneIn(list) \ {r} : Smaller(list[m], list[r])
         /\ files' = RemoveAt(list, r)
         /\ index' = [j \in {j \in DOMAIN index : index[j] # r} |->
                        IF index[j] > r THEN index[j] - 1 ELSE index[j]]

\* trim_completed: of more than MaxDisplay files that are done the smallest
\* goes, and the places behind it move up.
Trim(list) ==
  IF Cardinality(DoneIn(list)) <= MaxDisplay
  THEN files' = list /\ UNCHANGED index
  ELSE \E r \in DoneIn(list) :
         /\ IsSmallest(list, r)
         /\ files' = RemoveAt(list, r)
         /\ index' = [j \in {j \in DOMAIN index : index[j] # r} |->
                        IF index[j] > r THEN index[j] - 1 ELSE index[j]]

\* FileDone.
Done(i) ==
  /\ i \in running
  /\ Trim([files EXCEPT ![index[i]].done = TRUE])
  /\ running' = running \ {i}
  /\ finished' = finished \cup {[id |-> i, total |-> files[index[i]].total]}

Next ==
  \E i \in Ids :
    \/ \E total \in 1 .. MaxPages : \E residency \in SUBSET (1 .. total) : Start(i, total, residency)
    \/ \E offset \in 0 .. MaxPages - 1, count \in 1 .. MaxPages, resident \in BOOLEAN :
         Progress(i, offset, count, resident)
    \/ Done(i)

Spec == Init /\ [][Next]_vars

-----------------------------------------------------------------------------
\* The files in some places of the list, the largest first.
Sorted(places) ==
  [k \in 1 .. Cardinality(places) |->
     files[CHOOSE n \in places :
             Cardinality({m \in places : Smaller(files[n], files[m])}) = k - 1]]

\* Mutant of Visible: the list is cut before the done files are hidden.
VisibleCutsFirst(max) ==
  LET cut == {n \in DOMAIN files :
                Cardinality({m \in DOMAIN files : Smaller(files[n], files[m])}) < max}
  IN  Sorted(IF Len(files) > max /\ \E n \in DOMAIN files : ~files[n].done
             THEN cut \ DoneIn(files) ELSE cut)

\* visible_files: the largest first; when they are too many, those that are done
\* make room for those that are not, unless all are done.
Visible(max) ==
  LET shown == Sorted(IF Len(files) > max /\ \E n \in DOMAIN files : ~files[n].done
                      THEN DOMAIN files \ DoneIn(files) ELSE DOMAIN files)
  IN  SubSeq(shown, 1, IF Len(shown) > max THEN max ELSE Len(shown))

-----------------------------------------------------------------------------
\* Every variable stays in its type.  In particular no count of resident pages
\* falls below zero, where the subtraction of the code would overflow.
TypeOK ==
  /\ \A n \in DOMAIN files : files[n] \in File
  /\ DOMAIN index \subseteq Ids
  /\ running \subseteq Ids
  /\ finished \subseteq [id : Ids, total : 1 .. MaxPages]

\* The map and the list agree, through every removal from the middle of the
\* list: each event lands on its own file.
IndexIsSound ==
  /\ \A i \in DOMAIN index : index[i] \in DOMAIN files /\ files[index[i]].id = i
  /\ \A n \in DOMAIN files : files[n].id \in DOMAIN index

\* The count that is kept beside each map of pages is the map's.
CountsAgree ==
  \A n \in DOMAIN files : files[n].resident = Cardinality(files[n].residency)

DoneFiles == DoneIn(files)

\* What the list keeps is right, whatever the order in which files begin and
\* finish: every file that is being worked on, and of those that are done the
\* largest, as many as can be displayed.
RightFilesAreKept ==
  LET kept == {f \in finished : \E n \in DoneFiles : files[n].id = f.id}
  IN  /\ running = {files[n].id : n \in DOMAIN files \ DoneFiles}
      /\ Cardinality(DoneFiles) = Cardinality(kept)
      /\ Cardinality(kept) = IF Cardinality(finished) < MaxDisplay THEN Cardinality(finished)
                             ELSE MaxDisplay
      /\ \A f \in kept, g \in finished \ kept : Smaller(g, f)

\* The screen has room for MaxDisplay files, and uses it: what is shown is never
\* more, never nothing while there is a file, and never only files that are
\* done while one is not.
ScreenIsUseful ==
  LET shown == Visible(MaxDisplay)
  IN  /\ Len(shown) <= MaxDisplay
      /\ files # <<>> => shown # <<>>
      /\ running # {} => \E n \in DOMAIN shown : shown[n].id \in running
=============================================================================
