--------------------------- MODULE PageTables ---------------------------
(***************************************************************************)
(* The page tables of Memory.  A table of several levels is the function   *)
(* from the paths of its leaves to their entries: MapPageToFrame makes the *)
(* levels a path needs and nothing removes one, so a page is not found for *)
(* the lack of a level exactly when its path has no leaf.                  *)
(***************************************************************************)
EXTENDS Integers, Sequences, FiniteSetsExt

CONSTANTS EntriesPerPage, NumberOfLevels

ASSUME TablesAssumption ==
    EntriesPerPage \in Nat \ {0} /\ NumberOfLevels \in Nat \ {0}

(* getPageIndices: the digits of the page number.  Those that do not fit   *)
(* in the levels are dropped.                                              *)
getPageIndices(page) ==
    [l \in 1..NumberOfLevels |->
        (page \div EntriesPerPage ^ (NumberOfLevels - l)) % EntriesPerPage]

(* MapPageToFrame for the pages 0, 1, ... of a process, in that order.     *)
MapPages(table, frames) ==
    LET paths == {getPageIndices(i - 1) : i \in DOMAIN frames}
        PageOf(path) == Max({i \in DOMAIN frames : getPageIndices(i - 1) = path})
    IN  [path \in DOMAIN table \union paths |->
            IF path \in paths
            THEN [frame |-> frames[PageOf(path)], presence |-> TRUE]
            ELSE table[path]]

(* updatePageTablePresenceBitsSafe, for the pages of a process.            *)
MarkAbsent(table) ==
    [path \in DOMAIN table |-> [table[path] EXCEPT !.presence = FALSE]]

(* SearchFrame, by FindPageEntry: the frame of a page that is present.     *)
SearchFrame(table, page) ==
    LET path == getPageIndices(page) IN
    IF path \in DOMAIN table /\ table[path].presence THEN table[path].frame ELSE -1
=============================================================================
