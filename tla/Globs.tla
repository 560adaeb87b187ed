-------------------------------- MODULE Globs --------------------------------
(***************************************************************************)
(* Glob patterns (glob.rs): a pattern is read into atoms, classified by    *)
(* the cheapest way to match them, and otherwise run as an automaton with  *)
(* one bit per state, in words of WordBits bits.  A text is a sequence of  *)
(* character codes; a word is the set of its bits.                         *)
(***************************************************************************)
EXTENDS Integers, Sequences, SequencesExt, FiniteSetsExt

CONSTANT WordBits    \* bits of a word: 64

ASSUME WordBitsAssumption == WordBits \in Nat \ {0}

AnyRun == 42         \* *
AnyOne == 63         \* ?
Opens == 91       \* [
Closes == 93      \* ]
Escape == 92      \* \
Caret == 94       \* ^
Dash == 45        \* -

TheStar == [is |-> "star"]
TheOne == [is |-> "one"]
Char(c) == [is |-> "char", c |-> c]
-----------------------------------------------------------------------------
(***************************************************************************)
(* Reading a pattern.                                                      *)
(***************************************************************************)
\* One member of the class whose members start at `start`, or the end of it.  A
\* closing bracket right after the opening is a member.
member(p, start, m) ==
    LET i == m.at
        lo == IF p[i] = Escape /\ i < Len(p) THEN i + 1 ELSE i
    IN  IF i > Len(p) \/ (p[i] = Closes /\ i # start) THEN m
        ELSE IF lo + 2 <= Len(p) /\ p[lo + 1] = Dash /\ p[lo + 2] # Closes
        THEN [ranges |-> m.ranges \cup {<<Min({p[lo], p[lo + 2]}), Max({p[lo], p[lo + 2]})>>},
              at |-> lo + 3]
        ELSE [ranges |-> m.ranges \cup {<<p[lo], p[lo]>>}, at |-> lo + 1]

\* A loop passes once for each character at most, and then stays where it is.
members(p, start) ==
    LET pass[n \in 0 .. Len(p)] == IF n = 0 THEN [ranges |-> {}, at |-> start]
                                   ELSE member(p, start, pass[n - 1])
    IN  pass[Len(p)]

\* A class, with the members read and where they end.
class_of(p, negate, m) ==
    [atom |-> [is |-> "set", negate |-> negate, ranges |-> m.ranges],
     next |-> m.at + 1, closed |-> m.at <= Len(p)]
class(p, start) ==
    LET negate == start < Len(p) /\ p[start + 1] = Caret
    IN  class_of(p, negate, members(p, IF negate THEN start + 2 ELSE start + 1))

\* The atom that comes next: runs of stars are one star, and a class that is never
\* closed makes the pattern match nothing.
pushed(r, atom, next) == [closed |-> r.closed, atoms |-> Append(r.atoms, atom), at |-> next]
class_read(p, r, c) ==
    IF c.closed THEN pushed(r, c.atom, c.next)
    ELSE [closed |-> FALSE, atoms |-> r.atoms, at |-> Len(p) + 1]
atom_read(p, r) ==
    LET i == r.at
    IN  IF i \notin DOMAIN p THEN r
        ELSE CASE p[i] = AnyRun ->
                    IF r.atoms # <<>> /\ Last(r.atoms) = TheStar THEN [r EXCEPT !.at = i + 1]
                    ELSE pushed(r, TheStar, i + 1)
               [] p[i] = AnyOne -> pushed(r, TheOne, i + 1)
               [] p[i] = Opens -> class_read(p, r, class(p, i))
               [] p[i] = Escape /\ i < Len(p) -> pushed(r, Char(p[i + 1]), i + 2)
               [] OTHER -> pushed(r, Char(p[i]), i + 1)

atoms(p) ==
    LET pass[n \in 0 .. Len(p)] == IF n = 0 THEN [closed |-> TRUE, atoms |-> <<>>, at |-> 1]
                                   ELSE atom_read(p, pass[n - 1])
    IN  pass[Len(p)]

accepts(atom, c) ==
    CASE atom.is = "char" -> atom.c = c
      [] atom.is = "set" -> (\E r \in atom.ranges : r[1] <= c /\ c <= r[2]) # atom.negate
      [] OTHER -> TRUE

\* Where everything the pattern matches starts (db.rs).
literal_prefix(p) ==
    LET special == {i \in DOMAIN p : p[i] \in {AnyRun, AnyOne, Opens, Escape}}
    IN  IF special = {} THEN p ELSE SubSeq(p, 1, Min(special) - 1)
-----------------------------------------------------------------------------
(***************************************************************************)
(* The automaton: state i, that the first i atoms have matched, is one bit *)
(* of a word.  A set of states is the set of its bits.                     *)
(***************************************************************************)
Bits == 0 .. WordBits - 1
Words(as) == 0 .. Len(as) \div WordBits
Bit(i) == <<i \div WordBits, i % WordBits>>

\* The states before each of some of the atoms.
BitsOf(some) == {Bit(i - 1) : i \in some}
Stars(as) == BitsOf({i \in DOMAIN as : as[i] = TheStar})
Accepting(as, c) == BitsOf({i \in DOMAIN as : as[i] # TheStar /\ accepts(as[i], c)})

\* Each word << 1, with the bit carried out of the word before.
Shift(as, states) ==
    {to \in Words(as) \X Bits :
        IF to[2] > 0 THEN <<to[1], to[2] - 1>> \in states ELSE <<to[1] - 1, WordBits - 1>> \in states}

\* States a star reaches by matching nothing.
close(as, states) == states \cup Shift(as, states \cap Stars(as))

advance(as, states, c) ==
    close(as, Shift(as, states \cap Accepting(as, c)) \cup (states \cap Stars(as)))

run(as, text) ==
    LET after[n \in 0 .. Len(text)] == IF n = 0 THEN close(as, {Bit(0)})
                                      ELSE advance(as, after[n - 1], text[n])
    IN  Bit(Len(as)) \in after[Len(text)]
-----------------------------------------------------------------------------
(***************************************************************************)
(* Glob::new and matches: atoms that are all literal, but for a star at    *)
(* either end, are compared as they are.                                   *)
(***************************************************************************)
literal(as) == \A i \in DOMAIN as : as[i].is = "char"
chars(as) == [i \in DOMAIN as |-> as[i].c]

EndsWith(text, s) == IsSuffix(s, text)
Occurs(text, s) == \E i \in 0 .. Len(text) - Len(s) : SubSeq(text, i + 1, i + Len(s)) = s

matches(p, text) ==
    \E read \in {atoms(p)} :
       LET as == read.atoms
           head == as # <<>> /\ Head(as) = TheStar
           tail == as # <<>> /\ Last(as) = TheStar
           inner == SubSeq(as, IF head THEN 2 ELSE 1, Len(as) - (IF tail THEN 1 ELSE 0))
       IN  /\ read.closed
           /\ CASE as = <<TheStar>> -> TRUE
                [] literal(as) -> text = chars(as)
                [] ~literal(as) /\ Len(as) >= 2 /\ literal(inner) ->
                     CASE head /\ tail -> Occurs(text, chars(inner))
                       [] head /\ ~tail -> EndsWith(text, chars(inner))
                       [] OTHER -> IsPrefix(chars(inner), text)
                [] OTHER -> run(as, text)
-----------------------------------------------------------------------------
\* What a pattern means: the text can be cut so that each of its atoms has its
\* part, in order, a star any number of characters and another atom one it
\* accepts.
Shared(as, text) ==
    \E cut \in [0 .. Len(as) -> 0 .. Len(text)] :
       /\ cut[0] = 0 /\ cut[Len(as)] = Len(text)
       /\ \A i \in 1 .. Len(as) :
             \/ as[i] = TheStar /\ cut[i - 1] <= cut[i]
             \/ as[i] # TheStar /\ cut[i] = cut[i - 1] + 1 /\ accepts(as[i], text[cut[i]])

Means(p, text) == atoms(p).closed /\ Shared(atoms(p).atoms, text)
=============================================================================
