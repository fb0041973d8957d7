----------------------------- MODULE KindFilter -----------------------------
(***************************************************************************)
(* What kinds.json decides about an event: who may publish and who may     *)
(* receive it, and which of its fields make the relay refuse it.           *)
(*                                                                         *)
(* Everything here is a pure function of an event, of the key the client   *)
(* authenticated with, of the time and of the configuration.  A tag is a   *)
(* sequence of texts, its name first.  A regular expression is the set of  *)
(* texts it matches, a script the set of pairs <<author, key>> for which   *)
(* it exits with 0; a script that cannot be run denies, as one that is not *)
(* satisfied does.  Of a message only its prefix is kept, which decides    *)
(* the status of the answer.                                               *)
(***************************************************************************)
EXTENDS Integers, Sequences, FiniteSetsExt

CONSTANTS
    Text,        \* tag names, tag values and identifiers in access rules
    Key,         \* public keys, texts of 64 hexadecimal digits
    Hex,         \* all texts of 64 hexadecimal digits
    NoKey,       \* the client has not authenticated
    ServerKey,   \* info.pubkey of the relay, or NoKey
    Chars,       \* Text -> number of characters
    TimeOf,      \* Text -> the number it spells, or NoTime
    NoTime,
    Unset,       \* an option that is not configured
    Width        \* u64 arithmetic is modulo Width

ASSUME KindFilterAssumption ==
    /\ Key \subseteq Hex /\ Hex \subseteq Text
    /\ NoKey \notin Text /\ ServerKey \in Key \cup {NoKey}
    /\ NoTime \notin Nat
    /\ Width \in Nat \ {0}
    /\ Chars \in [Text -> Nat]
    /\ TimeOf \in [Text -> Nat \cup {NoTime}]

EventFields ==
    [author : Key, kind : Nat, created_at : Nat, size : Nat, valid : BOOLEAN,
     tags : Seq(Seq(Text))]

-----------------------------------------------------------------------------
(* Tags. *)

\* First values of the tags of one name that have a value, in order.
TagValues(e, name) ==
    LET named == SelectSeq(e.tags, LAMBDA t : Len(t) > 1 /\ t[1] = name)
    IN  [i \in DOMAIN named |-> named[i][2]]

ValueSet(e, name) == {TagValues(e, name)[i] : i \in DOMAIN TagValues(e, name)}

ExpirationTags(e) == SelectSeq(e.tags, LAMBDA t : t # <<>> /\ t[1] = "expiration")

\* The first expiration tag counts; without a value, or with one that is not a
\* number, the event has no expiration.
Expiration(e) ==
    LET tags == ExpirationTags(e)
    IN  IF tags = <<>> \/ Len(tags[1]) = 1 THEN NoTime ELSE TimeOf[tags[1][2]]

IsExpired(e, now) == Expiration(e) # NoTime /\ Expiration(e) <= now

-----------------------------------------------------------------------------
(* Access rules. *)

AccessRule == [type : {"all", "none"}] \cup [type : {"list"}, ids : SUBSET Text]

\* An identifier that is a key stands for the author of the event as well as for
\* the authenticated client.
EvaluateIdentifier(id, e, auth) ==
    \/ id \in Hex /\ (id = e.author \/ id = auth)
    \/ id = "private_server_hex" /\ auth # NoKey /\ auth = ServerKey

CheckAccessRule(rule, e, auth) ==
    \/ rule.type = "all"
    \/ rule.type = "list" /\ \E id \in rule.ids : EvaluateIdentifier(id, e, auth)

\* What a script that ends decides; one that does not end is a step of module Publish.
ExecuteScript(script, e, auth) == <<e.author, auth>> \in script

CheckPrivilegedRead(e, auth) ==
    auth # NoKey /\ (auth = e.author \/ auth \in ValueSet(e, "p"))

\* Mutant: privileged only adds readers, so that the default allow "*" lets everyone in.
CheckWriteReadAllowFirst(config, e, auth, isRead) ==
    /\ config.script = Unset \/ ExecuteScript(config.script, e, auth)
    /\ ~CheckAccessRule(config.deny, e, auth)
    /\ \/ CheckAccessRule(config.allow, e, auth)
       \/ isRead /\ config.privileged /\ CheckPrivilegedRead(e, auth)

CheckWriteRead(config, e, auth, isRead) ==
    /\ config.script = Unset \/ ExecuteScript(config.script, e, auth)
    /\ ~CheckAccessRule(config.deny, e, auth)
    /\ IF isRead /\ config.privileged
       THEN \/ config.allow.type # "all" /\ CheckAccessRule(config.allow, e, auth)
            \/ CheckPrivilegedRead(e, auth)
       ELSE CheckAccessRule(config.allow, e, auth)

\* The whitelist, when there is one, makes the blacklist irrelevant.
IsKindAllowed(kind, filters) ==
    IF filters.whitelist # Unset
    THEN kind \in filters.whitelist
    ELSE filters.blacklist = Unset \/ kind \notin filters.blacklist

-----------------------------------------------------------------------------
(* Requirements on the fields of an event. *)

ValidateTag(e, name, requirement) ==
    CASE requirement = "none" -> TRUE
      [] requirement = "required" -> ValueSet(e, name) # {}
      [] requirement = "hex" -> ValueSet(e, name) \cap Hex # {}

ValidateRequiredTags(e, names) == \A n \in names : ValueSet(e, n) # {}

ValidateTagPatterns(e, patterns) ==
    \A n \in DOMAIN patterns : ValueSet(e, n) # {} /\ ValueSet(e, n) \subseteq patterns[n]

\* Zero is no limit.
Exceeds(count, limit) == limit > 0 /\ count > limit

WithinTagLimits(e, limits) ==
    /\ ~Exceeds(Len(e.tags), limits.tags)
    /\ \A i \in DOMAIN e.tags : \A j \in DOMAIN e.tags[i] :
           ~Exceeds(Chars[e.tags[i][j]], IF j = 1 THEN limits.name ELSE limits.value)

\* The sum wraps: an event dated close to the end of time counts as old.
TooOld(e, duration, now) == now > (e.created_at + duration) % Width

-----------------------------------------------------------------------------
(* The answer. *)

Status == {"saved", "duplicate", "invalid", "blocked", "rate-limited", "error",
           "restricted", "auth-required"}
Accepting == {"saved", "duplicate"}

KnownPrefix == (Status \ {"saved"}) \cup {"pow", "unsupported"}

\* The status a reason stands for; a template without a known prefix is given "blocked".
FromReason(prefix) ==
    CASE prefix = "pow" -> "invalid"
      [] prefix = "unsupported" -> "error"
      [] prefix \in KnownPrefix \cap Status -> prefix
      [] OTHER -> "blocked"

\* The template of the check: that of the write rule, of the kind, the global one,
\* the default.
ResolveErrorMessage(check, own, global) ==
    FromReason(CASE check.name \in DOMAIN own -> own[check.name]
                 [] check.name \notin DOMAIN own /\ check.name \in DOMAIN global
                        -> global[check.name]
                 [] OTHER -> check.default)

Check(name, default) == [name |-> name, default |-> default]

\* The checks the writer makes for an event of a configured kind, in their order.
Checks ==
    << Check("write", "restricted"),
       Check("auth_required", "auth-required"),
       Check("max_size", "blocked"),
       Check("d_tag", "invalid"),
       Check("p_tag", "invalid"),
       Check("missing_tag", "invalid"),
       Check("tag_pattern", "invalid"),
       Check("tag_limits", "invalid"),
       Check("expired", "blocked"),
       Check("expiration_invalid", "invalid"),
       Check("expiration", "blocked") >>

AccessFails(name, e, auth, kf) ==
    \/ name = "write" /\ kf.write # Unset /\ ~CheckWriteRead(kf.write, e, auth, FALSE)
    \/ name = "auth_required" /\ kf.require_auth /\ auth = NoKey
    \/ name = "max_size" /\ kf.max_size # Unset /\ e.size > kf.max_size

TagsFail(name, e, kf) ==
    \/ name = "d_tag" /\ ~ValidateTag(e, "d", kf.d_tag)
    \/ name = "p_tag" /\ ~ValidateTag(e, "p", kf.p_tag)
    \/ name = "missing_tag" /\ ~ValidateRequiredTags(e, kf.required_tags)
    \/ name = "tag_pattern" /\ ~ValidateTagPatterns(e, kf.tag_patterns)
    \/ name = "tag_limits" /\ kf.tag_limits # Unset /\ ~WithinTagLimits(e, kf.tag_limits)

TimesFail(name, e, now, kf) ==
    \/ name = "expired" /\ kf.expiration # Unset /\ TooOld(e, kf.expiration, now)
    \/ /\ name = "expiration_invalid"
       /\ kf.max_expiration # Unset /\ ExpirationTags(e) # <<>> /\ Expiration(e) = NoTime
    \/ /\ name = "expiration"
       /\ kf.max_expiration # Unset /\ Expiration(e) # NoTime
       /\ Expiration(e) > now + kf.max_expiration

Fails(name, e, auth, now, kf) ==
    AccessFails(name, e, auth, kf) \/ TagsFail(name, e, kf) \/ TimesFail(name, e, now, kf)

FailingChecks(e, auth, now, kf) ==
    {i \in DOMAIN Checks : Fails(Checks[i].name, e, auth, now, kf)}

OwnErrors(kf) ==
    IF kf.write # Unset /\ kf.write.error # Unset
    THEN [n \in DOMAIN kf.errors \cup {"write"} |->
             IF n = "write" THEN kf.write.error ELSE kf.errors[n]]
    ELSE kf.errors

\* Why the filters refuse an event, as a status, or Unset when they do not.
Refusal(e, auth, now, filters) ==
    LET kindList == IF filters.whitelist # Unset THEN "not_in_whitelist" ELSE "blacklisted"
        failing  == FailingChecks(e, auth, now, filters.kinds[e.kind])
    IN  IF ~IsKindAllowed(e.kind, filters)
        THEN ResolveErrorMessage(Check(kindList, "blocked"), <<>>, filters.errors)
        ELSE IF e.kind \notin DOMAIN filters.kinds \/ failing = {}
             THEN Unset
             ELSE ResolveErrorMessage(Checks[Min(failing)], OwnErrors(filters.kinds[e.kind]),
                                      filters.errors)

-----------------------------------------------------------------------------
(* Delivery. *)

\* Kinds of direct messages for nip42_dms.
DirectMessage == {4, 44, 1059}

\* Only the author and the first recipient.
DirectMessageAllowed(e, auth) ==
    LET recipients == TagValues(e, "p")
    IN  auth # NoKey /\ 1 \in DOMAIN recipients /\ auth \in {recipients[1], e.author}

\* allowed_to_send: whether a client that authenticated with auth is sent an event.
AllowedToSend(e, auth, now, filters, nip42_dms) ==
    /\ IsKindAllowed(e.kind, filters)
    /\ ~IsExpired(e, now)
    /\ e.kind \in DOMAIN filters.kinds =>
           LET kf == filters.kinds[e.kind] IN
           /\ kf.require_auth => auth # NoKey
           /\ kf.read # Unset => CheckWriteRead(kf.read, e, auth, TRUE)
           /\ kf.expiration # Unset => ~TooOld(e, kf.expiration, now)
    /\ nip42_dms /\ e.kind \in DirectMessage => DirectMessageAllowed(e, auth)

=============================================================================
