-------------------------------- MODULE Path --------------------------------
(***************************************************************************)
(* rct/Path.cpp: canonicalize, which takes "//", "/./" and "name/../" out  *)
(* of a path in place.  One round of its loop is a step.  A path is a      *)
(* sequence of characters, numbered from 0 as in the code; any character   *)
(* other than "/" and "." stands for a letter.                             *)
(*                                                                         *)
(* i is a size_t.  Where it goes below 0 it becomes greater than any       *)
(* length, and the loop ends, unless len is 0 as well: then len - 1 is the *)
(* greatest size_t, and the loop reads outside the path, as the test for a *)
(* trailing slash does.  A path that is empty to begin with, as Path() is, *)
(* comes to the same at the first test of the loop.                        *)
(***************************************************************************)
EXTENDS Integers, Sequences, SequencesExt

CONSTANTS
    Letters,
    MaxPath             \* length of a path

ASSUME PathAssumption == Letters \cap {"/", "."} = {} /\ MaxPath \in Nat

VARIABLES
    original, path, cursor,
    canon               \* "loop", "done", or "undefined" after a read outside

canonVars == <<original, path, cursor, canon>>

PathInit ==
    /\ original \in UNION {[1 .. n -> Letters \cup {"/", "."}] : n \in 0 .. MaxPath}
    /\ path = original /\ cursor = 0
    /\ canon = IF original = <<>> THEN "undefined" ELSE "loop"

-----------------------------------------------------------------------------

Char(i) == path[i + 1]

(* Whether word comes at i and fills the rest of the path, or ends with a  *)
(* slash inside it                                                         *)
WordAt(i, word) ==
    LET n == Len(word)
    IN  /\ i + n <= Len(path)
        /\ \A k \in 0 .. n - 1 : Char(i + k) = word[k + 1]
        /\ i + n < Len(path) => Char(i + n) = "/"

(* Mutant: a name that begins with two dots is taken for the parent *)
ParentPrefixAt(i) ==
    LET word == <<"/", ".", ".">>
    IN  i + 3 <= Len(path) /\ \A k \in 0 .. 2 : Char(i + k) = word[k + 1]

ParentAt(i) == WordAt(i, <<"/", ".", ".">>)

SelfAt(i) == WordAt(i, <<"/", ".">>)

(* The characters from first to last - 1 are taken out *)
Cut(first, last) == path' = SubSeq(path, 1, first) \o SubSeq(path, last + 1, Len(path))

Slashes(i) == {j \in 0 .. i - 1 : Char(j) = "/"}

(* ++i, and the test that ends the loop or lets it read outside *)
Advance(i) ==
    /\ cursor' = i + 1
    /\ canon' = IF path' = <<>> /\ i + 1 # -1 THEN "undefined" ELSE "loop"

InLoop == canon = "loop" /\ cursor \in 0 .. Len(path) - 2

CutParent ==
    /\ InLoop /\ ParentAt(cursor)
    /\ LET js == Slashes(cursor)
           j == CHOOSE k \in js : \A other \in js : other <= k
       IN  IF js = {}
           THEN UNCHANGED path /\ Advance(cursor)
           ELSE Cut(j, cursor + 3) /\ Advance(j - 3)
    /\ UNCHANGED original

CutSelf ==
    /\ InLoop /\ SelfAt(cursor)
    /\ Cut(cursor, cursor + 2) /\ Advance(cursor - 2)
    /\ UNCHANGED original

CutSlash ==
    /\ InLoop /\ Char(cursor) = "/" /\ Char(cursor + 1) = "/"
    /\ Cut(cursor, cursor + 1) /\ Advance(cursor - 1)
    /\ UNCHANGED original

SkipChar ==
    /\ InLoop /\ ~ParentAt(cursor) /\ ~SelfAt(cursor)
    /\ Char(cursor) = "/" => Char(cursor + 1) # "/"
    /\ UNCHANGED <<original, path>>
    /\ Advance(cursor)

TrailingSlash ==
    /\ canon = "loop" /\ ~InLoop
    /\ IF path = <<>>
       THEN UNCHANGED path
       ELSE path' = IF Last(path) = "/" THEN Front(path) ELSE path
    /\ canon' = IF path = <<>> THEN "undefined" ELSE "done"
    /\ UNCHANGED <<original, cursor>>

PathNext == CutParent \/ CutSelf \/ CutSlash \/ SkipChar \/ TrailingSlash

PathSpec == PathInit /\ [][PathNext]_canonVars

-----------------------------------------------------------------------------
(* What a path means: the names on the way, from where it starts, and how  *)
(* far it climbs above that                                                *)

Absolute(p) == p # <<>> /\ p[1] = "/"

Walk(place, name) ==
    CASE name \in {<<>>, <<".">>} -> place
      [] name = <<".", ".">>      -> IF place.down = <<>> THEN [place EXCEPT !.up = @ + 1]
                                     ELSE [place EXCEPT !.down = Front(@)]
      [] OTHER                    -> [place EXCEPT !.down = Append(@, name)]

(* The names between the slashes, by adding one character at a time *)
AddChar(names, c) ==
    IF c = "/" THEN Append(names, <<>>) ELSE [names EXCEPT ![Len(names)] = Append(@, c)]

Names(p) == FoldLeft(AddChar, << <<>> >>, p)

Place(p) ==
    LET place == FoldLeft(Walk, [up |-> 0, down |-> <<>>], Names(p))
    IN  IF Absolute(p) THEN [place EXCEPT !.up = 0] ELSE place

(* canonicalize leaves an absolute path absolute and a relative one        *)
(* relative, and the path still leads to the same place, for every path    *)
(* that neither is empty, nor the root, nor climbs above where it starts;  *)
(* for those it never reads outside the path (Path.cpp 194-238).           *)
SamePlace ==
    /\ original # <<>>
    /\ Absolute(original) => Place(original).down # <<>>
    /\ Place(original).up = 0
    => /\ canon # "undefined"
       /\ canon = "done" => Absolute(path) = Absolute(original) /\ Place(path) = Place(original)
=============================================================================
