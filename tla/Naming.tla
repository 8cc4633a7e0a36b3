---- MODULE Naming ----
(***************************************************************************)
(* Topic slugs of the entities (model/naming.py).  A name is a sequence of *)
(* words as they are typed, a slug a sequence of words as slugify spells   *)
(* them: the words are what the runs of [^a-z0-9] separate.  An entity id  *)
(* is its serial and its channel id, which slugify leaves as they are.     *)
(***************************************************************************)
EXTENDS Naturals, Sequences, FiniteSets, SequencesExt

CONSTANTS
    Spelling,       \* per typed word what remains of it: lower case, umlauts spelled out
    MaxSlugLength   \* words of a slug (the code counts 64 characters)

ASSUME NamingAssumption ==
    /\ \A word \in DOMAIN Spelling : Len(Spelling[word]) \in Nat
    /\ MaxSlugLength \in Nat \ {0}

Cut(text) == IF text = <<>> THEN <<"unnamed">> ELSE SubSeq(text, 1, Min({MaxSlugLength, Len(text)}))
slugify(name) == Cut(FlattenSeq([i \in DOMAIN name |-> Spelling[name[i]]]))

\* The names to try in turn: its own, that of its area, of its channel, of its id.
\* A channel without a floorplan entry has the empty area.
slug_options(candidate) ==
    LET plain == slugify(candidate.name)
        local == slugify(candidate.area \o candidate.name)
        exact == Append(local, candidate.id[2])
    IN  IF candidate.area = <<>> THEN <<plain, exact, candidate.id>>
        ELSE <<plain, local, exact, candidate.id>>

Shared(candidate, candidates) ==
    Cardinality({i \in DOMAIN candidates :
        slugify(candidates[i].name) = slugify(candidate.name)}) > 1

\* Slip: whoever comes first in the order of the ids keeps the plain slug.
EligibleFirst(candidate, candidates) == slug_options(candidate)

Eligible(candidate, candidates) ==
    IF Shared(candidate, candidates) THEN Tail(slug_options(candidate)) ELSE slug_options(candidate)

\* Slip: a slug may be claimed twice.
resolve_slugsTwice(candidates) ==
    [id \in {candidates[i].id : i \in DOMAIN candidates} |->
        Head(Eligible(CHOOSE c \in Range(candidates) : c.id = id, candidates))]

\* f[key] = value, as a dict takes it.
Put(f, key, value) ==
    [k \in DOMAIN f \cup {key} |-> IF k = key THEN value ELSE f[k]]

\* The first option that is free.  A candidate that finds all its options claimed
\* (SlugResolutionError) is left out.
Claim(claimed, candidate, candidates) ==
    LET options == Eligible(candidate, candidates)
        free    == {k \in DOMAIN options : options[k] \notin Range(claimed)}
    IN  IF free = {} THEN claimed ELSE Put(claimed, candidate.id, options[Min(free)])

\* The slug of every candidate, the candidates in the order of their ids.
resolve_slugs(candidates) ==
    LET claimed[n \in 0..Len(candidates)] ==
            IF n = 0 THEN <<>> ELSE Claim(claimed[n - 1], candidates[n], candidates)
    IN  claimed[Len(candidates)]
====
