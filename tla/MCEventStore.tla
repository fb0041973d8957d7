---------------------------- MODULE MCEventStore ----------------------------
(* Catalogues of events for TLC: which events exist, in any order of arrival, and the *)
(* filters clients may ask with.                                                    *)
EXTENDS FilterMatch, TLC

CONSTANTS a, b, v, w, e1, e2, e3, e4, e5, e6, e7, e8, e9

Authors == {a, b}
Values == {v, w, Empty}

Fields(author, kind, created, expires, d, e) ==
    [author |-> author, kind |-> kind, created_at |-> created,
     expires_at |-> expires, dTags |-> d, eTags |-> e]

Lower(S) == S \X {"lower"}

\* Versions of a profile and of an addressable event (the newest profile expires,
\* one event has two d tags), an event by another author whose d tag has no value
\* and which expires, deletions by both authors: of their own events, of the
\* other's, and with an id in upper case.
MixedIds == {e1, e2, e3, e4, e5, e7, e8, e9}
MixedContent ==
       e1 :> Fields(a, 0, 1, NoExpiry, <<>>, {})
    @@ e2 :> Fields(a, 0, 2, 1, <<>>, {})
    @@ e3 :> Fields(a, 30000, 1, NoExpiry, <<v>>, {})
    @@ e4 :> Fields(a, 30000, 2, NoExpiry, <<w, v>>, {})
    @@ e5 :> Fields(a, 30000, 3, NoExpiry, <<v>>, {})
    @@ e7 :> Fields(b, 30000, 1, 1, <<NoValue>>, {})
    @@ e8 :> Fields(a, 5, 3, NoExpiry, <<>>, Lower({e2, e7}) \cup {<<e3, "upper">>})
    @@ e9 :> Fields(b, 5, 3, NoExpiry, <<>>, Lower({e1, e7, e8}))

\* Two authors, three versions of a profile, two of each of two addresses, a note,
\* and deletions of a profile version, of an address's newest version, of the note.
RegularIds == {e1, e2, e3, e4, e5, e6, e7, e8, e9}
RegularCatalogue ==
       e1 :> Fields(a, 10000, 1, NoExpiry, <<>>, {})
    @@ e2 :> Fields(a, 10000, 2, NoExpiry, <<>>, {})
    @@ e3 :> Fields(a, 10000, 3, NoExpiry, <<>>, {})
    @@ e4 :> Fields(a, 30000, 1, NoExpiry, <<v>>, {})
    @@ e5 :> Fields(a, 30000, 2, NoExpiry, <<v>>, {})
    @@ e6 :> Fields(a, 30000, 3, NoExpiry, <<w>>, {})
    @@ e7 :> Fields(b, 1, 1, NoExpiry, <<>>, {})
    @@ e8 :> Fields(a, 5, 4, NoExpiry, <<>>, Lower({e2, e5, e7}))
    @@ e9 :> Fields(b, 5, 5, NoExpiry, <<>>, Lower({e1, e7, e8}))

\* A parameterized event that carries its d value twice.
RepeatedIds == {e1, e2, e3}
RepeatedContent ==
       e1 :> Fields(a, 30000, 1, NoExpiry, <<v>>, {})
    @@ e2 :> Fields(a, 30000, 2, NoExpiry, <<v, v>>, {})
    @@ e3 :> Fields(b, 1, 1, NoExpiry, <<>>, {})

\* Filters of one or two conditions, with values that match some events and not others,
\* values of the wrong type, beginnings of keys, and conditions on several tags.
AnyFilter ==
    [ids |-> Absent, authors |-> Absent, kinds |-> Absent, since |-> Absent,
     until |-> Absent, tags |-> <<>>]

MixedFilters ==
    LET One == {[AnyFilter EXCEPT !.ids = ids] :
                   ids \in {Malformed, {}, {Full(e1), Full(e4)}, {Beginning({e1, e3, e7})},
                            {UpperCase(e3)}, {EmptyText}}}
               \cup {[AnyFilter EXCEPT !.authors = as, !.since = t] :
                        as \in {Absent, {Full(a)}, {Full(b), Full(v)}}, t \in {Absent, Malformed, 2}}
        Tags == {[AnyFilter EXCEPT !.tags = ts, !.kinds = ks, !.until = t] :
                    ts \in {"d" :> {v}, "d" :> {}, "d" :> Malformed, "name" :> {v},
                            "name" :> NotArray, "e" :> {<<e2, "lower">>, <<e3, "lower">>},
                            "d" :> {v} @@ "e" :> {<<e2, "lower">>}, "p" :> {v}},
                    ks \in {Absent, {0, 30000}}, t \in {Absent, 2}}
    IN  One \cup Tags

\* An event the relay made itself, and one published for another key.
MixedOwn == {e5}
MixedDelegator == e1 :> b
NoDelegator == <<>>

=============================================================================
