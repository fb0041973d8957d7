------------------------------- MODULE Events -------------------------------
(***************************************************************************)
(* Nostr events as the relay's store and its writer see them.              *)
(*                                                                         *)
(* An event is identified by the hash of its content, so the content is a  *)
(* constant function of the identifier: two events with one id are one     *)
(* event.  Only the fields the store decides on are kept; signatures, the  *)
(* text and tags other than d and e are abstracted away.                   *)
(***************************************************************************)
EXTENDS Integers, Sequences

CONSTANTS
    Id,          \* event ids (SHA-256 hashes)
    Author,      \* public keys
    Value,       \* values of d tags
    Empty,       \* the empty d value, a member of Value
    NoValue,     \* second element of a d tag that has only one element
    NoExpiry,    \* expiration of an event without an expiration tag
    Content      \* Id -> the fields of the event

\* Spelling of the hexadecimal id inside an e tag: event ids are written in
\* lower case, a tag may hold any case.
Spelling == {"lower", "upper"}

EventContent ==
    [author     : Author,
     kind       : Nat,
     created_at : Nat,
     expires_at : Nat \cup {NoExpiry},
     dTags      : Seq(Value \cup {NoValue}),
     eTags      : SUBSET (Id \X Spelling)]

ASSUME EventsAssumption ==
    /\ Empty \in Value
    /\ NoValue \notin Value
    /\ NoExpiry \notin Nat
    /\ Content \in [Id -> EventContent]

AuthorOf(e)  == Content[e].author
KindOf(e)    == Content[e].kind
CreatedAt(e) == Content[e].created_at
ExpiresAt(e) == Content[e].expires_at
DTags(e)     == Content[e].dTags
ETags(e)     == Content[e].eTags

SameAuthorKind(e, f) == AuthorOf(e) = AuthorOf(f) /\ KindOf(e) = KindOf(f)

-----------------------------------------------------------------------------
(* Classes of kinds. *)

ReplaceableKind(k) == k \in {0, 3, 41} \/ (k >= 10000 /\ k < 20000)
ParamReplaceableKind(k) == k >= 30000 /\ k < 40000

IsReplaceable(e) == ReplaceableKind(KindOf(e))
IsParamReplaceable(e) == ParamReplaceableKind(KindOf(e))
IsDeletion(e) == KindOf(e) = 5

\* The d value that addresses a parameterized replaceable event: that of the
\* first d tag, and the empty string when there is none or it has no value.
DistinctParam(e) ==
    IF DTags(e) = <<>> \/ Head(DTags(e)) = NoValue THEN Empty ELSE Head(DTags(e))

\* Values of all d tags that have one: the rows the event gets in the tag table.
DValues(e) == {DTags(e)[i] : i \in DOMAIN DTags(e)} \ {NoValue}

\* The event has two d rows of value v.
RepeatsValue(e, v) ==
    \E i, j \in DOMAIN DTags(e) : i # j /\ DTags(e)[i] = v /\ DTags(e)[j] = v

\* Events with the same address are versions of one another: the author and kind
\* of a replaceable event, and the d value too of a parameterized one.
SameAddress(e, f) ==
    /\ SameAuthorKind(e, f)
    /\ IsReplaceable(e) \/ (IsParamReplaceable(e) /\ DistinctParam(e) = DistinctParam(f))

Supersedes(g, e) == SameAddress(g, e) /\ CreatedAt(g) > CreatedAt(e)

-----------------------------------------------------------------------------
(* Deletion requests. *)

\* The row of e is matched when deletion d arrives after it: the tag is decoded
\* to bytes, so its spelling does not matter.
HiddenBy(e, d) ==
    /\ IsDeletion(d) /\ ~IsDeletion(e)
    /\ AuthorOf(d) = AuthorOf(e)
    /\ \E s \in Spelling : <<e, s>> \in ETags(d)

\* Deletion d is found when e arrives after it: the tag's text is compared with
\* the event id.
DeletionOnRecord(e, d) ==
    /\ IsDeletion(d) /\ ~IsDeletion(e)
    /\ AuthorOf(d) = AuthorOf(e)
    /\ <<e, "lower">> \in ETags(d)

Expired(e, now) == ExpiresAt(e) # NoExpiry /\ ExpiresAt(e) <= now

=============================================================================
