----------------------------- MODULE LockRanges -----------------------------
(***************************************************************************)
(* The active locks of one inode: a vector of half-open ranges, sorted by  *)
(* start, each with a type and the set of its owners.                      *)
(***************************************************************************)
EXTENDS Integers, Sequences, SequencesExt

Lock(type, start, end, owner) ==
    [type |-> type, start |-> start, end |-> end, owners |-> {owner}]

Overlaps(a, b) == a.start < b.end /\ b.start < a.end

Sticks(a, b) == a.start = b.end \/ b.start = a.end

Unlocking(r) == r.type = "unlock" \/ r.owners = {}

\* Mutant: the range before the first one that starts in [start, end] is
\* forgotten.
MutFrom(data, start) == Cardinality({i \in DOMAIN data : data[i].start < start}) + 1

\* The part of a sorted vector that is searched for [start, end): from the last
\* range that starts before it to the last one that starts in or right after it.
From(data, start) ==
    Max({1, Cardinality({i \in DOMAIN data : data[i].start < start})})

Upto(data, end) == Cardinality({i \in DOMAIN data : data[i].start <= end})

Window(data, start, end) == SubSeq(data, From(data, start), Upto(data, end))

\* Mutant: it is enough to be one of the owners of a range.
MutCollides(range, other) ==
    /\ Overlaps(range, other)
    /\ range.type # "shared" \/ other.type # "shared"
    /\ ~(range.owners \subseteq other.owners)

\* The condition of findCollision.
Collides(range, other) ==
    /\ Overlaps(range, other)
    /\ range.type # "shared" \/ other.type # "shared"
    /\ other.owners # range.owners

\* fits: findCollision returns nullptr.
Fits(data, range) ==
    \/ Unlocking(range)
    \/ \A other \in ToSet(Window(data, range.start, range.end)) :
         ~Collides(range, other)

\* Mutant: the owner is not taken out of a range it shares.
MutOverwrite(other, range) ==
    IF range.owners = other.owners THEN [other EXCEPT !.type = range.type]
    ELSE [other EXCEPT !.owners = @ \cup range.owners]

\* What becomes of a part of other that lies within range.
Overwrite(other, range) ==
    IF range.owners = other.owners THEN [other EXCEPT !.type = range.type]
    ELSE IF Unlocking(range) THEN [other EXCEPT !.owners = @ \ range.owners]
    ELSE [other EXCEPT !.owners = @ \cup range.owners]

\* One step of insert's loop: done holds what is left behind, range what
\* remains to be inserted.
InsertStep(acc, other) ==
    LET range == acc.range
        Pass  == [acc EXCEPT !.done = Append(@, other)]
        Merge == [acc EXCEPT !.range.start = Min({@, other.start}),
                             !.range.end = Max({@, other.end})]
        Place == [done |-> acc.done \o <<range, other>>,
                  range |-> [range EXCEPT !.start = range.end]]
        Split ==
          LET before == IF range.start < other.start
                        THEN [range EXCEPT !.end = other.start]
                        ELSE [other EXCEPT !.end = range.start]
              common == [other EXCEPT !.start = Max({range.start, other.start}),
                                      !.end = Min({range.end, other.end})]
              after  == [other EXCEPT !.start = range.end]
              Nonempty(r) == r.start < r.end
          IN  [done  |-> acc.done \o SelectSeq(
                           <<before, Overwrite(common, range), after>>, Nonempty),
               range |-> [range EXCEPT !.start = other.end]]
    IN  CASE range.end <= range.start -> Pass
          [] range.end > range.start /\ Sticks(range, other)
               /\ range.owners = other.owners /\ range.type = other.type -> Merge
          [] OTHER -> IF Overlaps(range, other) THEN Split
                      ELSE IF range.end <= other.start THEN Place
                      ELSE Pass

\* insert: the window is rewritten and what is left of the range follows it.
Insert(data, range) ==
    LET first == From(data, range.start)
        last  == Upto(data, range.end)
        acc   == FoldLeft(InsertStep, [done |-> <<>>, range |-> range],
                          SubSeq(data, first, last))
        rest  == IF acc.range.start < acc.range.end THEN <<acc.range>> ELSE <<>>
        Stays(r) == ~Unlocking(r)
    IN  SubSeq(data, 1, first - 1)
          \o SelectSeq(acc.done \o rest, Stays)
          \o SubSeq(data, last + 1, Len(data))
=============================================================================
