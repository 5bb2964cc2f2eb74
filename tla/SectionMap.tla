------------------------------- MODULE SectionMap -------------------------------
(***************************************************************************)
(* What the knowledge document of a ticket promises its writers: sections  *)
(* that are written one at a time, and under some of them a growing list   *)
(* of subsections that keep the keys they were given.                      *)
(***************************************************************************)
EXTENDS Sequences, Naturals

CONSTANTS Keys, Parents

VARIABLE sections

Blank == [content |-> <<>>, subs |-> <<>>]

MapInit == sections = [k \in Keys |-> Blank]

\* The content of k, and nothing else, is replaced or continued.
Write(k) == sections' = [sections EXCEPT ![k].content = sections'[k].content]

\* One subsection is added under p; its key is new, the others are as they were.
Add(p) ==
    LET old == sections[p].subs
        new == sections'[p].subs
    IN  /\ sections' = [sections EXCEPT ![p].subs = new]
        /\ Len(new) = Len(old) + 1 /\ SubSeq(new, 1, Len(old)) = old
        /\ new[Len(new)].key \notin {old[i].key : i \in DOMAIN old}

MapNext == (\E k \in Keys : Write(k)) \/ (\E p \in Parents : Add(p))

=============================================================================
