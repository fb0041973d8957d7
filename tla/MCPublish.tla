------------------------------ MODULE MCPublish ------------------------------
(***************************************************************************)
(* Two connections from one address and the keys of three people, under    *)
(* configurations that each exercise one part of the writer.               *)
(***************************************************************************)
EXTENDS Publish, TLC

NAME == {"d", "e", "p", "t", "expiration"}
VALUE == {"", "1", "9", "soon", "long", "private_server_hex"}
PEOPLE == {"alice", "bob", "carol"}
Addresses == [c \in Conn |-> "home"]

-----------------------------------------------------------------------------
(* What clients send. *)

Note(author, kind, created_at, tags) ==
    [author |-> author, kind |-> kind, created_at |-> created_at, size |-> 1,
     valid |-> TRUE, tags |-> tags]

ToBob == <<"p", "bob">>
Dies(when) == <<"expiration", when>>

Catalogue ==
    "dm"      :> Note("alice", 4, 0, <<ToBob>>)
 @@ "secret"  :> Note("alice", 9, 0, <<ToBob, Dies("1")>>)
 @@ "open"    :> Note("bob", 9, 0, <<>>)
 @@ "list"    :> Note("alice", 3, 0, <<>>)
 @@ "newer"   :> Note("alice", 3, 1, <<>>)
 @@ "page"    :> Note("alice", 30001, 0, <<<<"d", "9">>>>)
 @@ "edited"  :> Note("alice", 30001, 1, <<<<"d", "9">>>>)
 @@ "gone"    :> Note("alice", 1, 0, <<>>)
 @@ "erase"   :> Note("alice", 5, 0, <<<<"e", "gone">>>>)
 @@ "typing"  :> Note("bob", 20001, 0, <<>>)
 @@ "dead"    :> Note("alice", 1, 0, <<Dies(""), Dies("1")>>)
 @@ "forged"  :> [Note("alice", 1, 0, <<>>) EXCEPT !.valid = FALSE]
 @@ "early"   :> Note("alice", 1, 9, <<>>)
 @@ "large"   :> [Note("alice", 5, 0, <<>>) EXCEPT !.size = 2]
 @@ "nod"     :> Note("alice", 5, 0, <<ToBob, <<"d">>>>)
 @@ "badp"    :> Note("alice", 5, 0, <<<<"d", "">>, <<"p", "long">>>>)
 @@ "not"     :> Note("alice", 5, 0, <<<<"d", "">>, ToBob>>)
 @@ "badt"    :> Note("alice", 5, 0, <<<<"d", "">>, ToBob, <<"t", "9">>>>)
 @@ "longt"   :> Note("alice", 5, 0, <<<<"d", "">>, ToBob, <<"t", "long">>>>)
 @@ "never"   :> Note("alice", 5, 0, <<<<"d", "">>, ToBob, <<"t", "1">>, Dies("soon")>>)
 @@ "late"    :> Note("alice", 5, 0, <<<<"d", "">>, ToBob, <<"t", "1">>, Dies("9")>>)
 @@ "good"    :> Note("alice", 5, 0, <<<<"d", "">>, ToBob, <<"t", "1">>>>)
Events == DOMAIN Catalogue

\* An event is its own id.
Ids == [e \in Events |-> e]
Hexes == PEOPLE \cup Events
Texts == NAME \cup VALUE \cup Hexes
Lengths == [t \in Texts |-> IF t \in {"long", "expiration"} THEN 2 ELSE 1]
Numbers == [t \in Texts |-> CASE t = "1" -> 1 [] t = "9" -> 9 [] OTHER -> NoTime]

Signed(author, c) ==
    [author |-> author, kind |-> 22242, created_at |-> 0, valid |-> TRUE,
     challenge |-> c, relay |-> "ours"]

\* One key signs for each connection; presented over the other it is a replay.
AuthCatalogue ==
    LET c1 == CHOOSE c \in Conn : TRUE
        c2 == CHOOSE c \in Conn \ {c1} : TRUE
    IN  "bobAtFirst"   :> Signed("bob", c1)
     @@ "carolAtOther" :> Signed("carol", c2)
     @@ "elsewhere"    :> [Signed("bob", c2) EXCEPT !.relay = "other"]
AuthEvents == {"bobAtFirst", "carolAtOther", "elsewhere"}

-----------------------------------------------------------------------------
(* Configurations of the relay. *)

PlainKind ==
    [write |-> Unset, read |-> Unset, require_auth |-> FALSE, max_size |-> Unset,
     d_tag |-> "none", p_tag |-> "none", required_tags |-> {}, tag_patterns |-> <<>>,
     tag_limits |-> Unset, expiration |-> Unset, max_expiration |-> Unset,
     rate_limit |-> FALSE, rate_limits |-> <<>>, errors |-> <<>>]

NoFilters == [whitelist |-> Unset, blacklist |-> Unset, errors |-> <<>>, kinds |-> <<>>]
OneKind(kind, kf) == [NoFilters EXCEPT !.kinds = kind :> kf]

Plain ==
    [filters |-> NoFilters, kind_blacklist |-> Unset, kind_allowlist |-> Unset,
     whitelist |-> Unset, pay |-> FALSE, cost |-> FALSE, nip05 |-> FALSE, service |-> Unset,
     nip42_auth |-> FALSE, relay_url |-> TRUE, nip42_dms |-> FALSE,
     reject_future |-> Unset, governed |-> FALSE, events |-> {}, sends |-> 1, faults |-> 0]

Everyone == [type |-> "all"]
Nobody == [type |-> "none"]
Only(ids) == [type |-> "list", ids |-> ids]
Rule(allow, deny, privileged) ==
    [script |-> Unset, allow |-> allow, deny |-> deny, privileged |-> privileged,
     error |-> Unset]

\* A kind that only its author and its recipients read.
Private ==
    [Plain EXCEPT
        !.filters = OneKind(9, [PlainKind EXCEPT !.read = Rule(Everyone, Nobody, TRUE)]),
        !.nip42_auth = TRUE,
        !.events = {"secret", "bobAtFirst", "carolAtOther"}, !.sends = 2]

\* A kind that only the relay's own key publishes, for bob, and that everyone may read
\* for the same reason; the error is that of the rule.
Restricted ==
    [Plain EXCEPT
        !.filters = OneKind(9,
            [PlainKind EXCEPT
                !.require_auth = TRUE,
                !.write = [Rule(Only({"private_server_hex"}), Only({"alice"}), FALSE)
                           EXCEPT !.script = {<<"bob", "carol">>, <<"alice", "carol">>,
                                              <<"bob", "bob">>},
                                  !.error = "auth-required"],
                !.read = Rule(Only({"bob"}), Nobody, TRUE)]),
        !.nip42_auth = TRUE,
        !.events = {"secret", "open", "bobAtFirst", "carolAtOther", "elsewhere"}, !.sends = 2]

DirectMessages ==
    [Plain EXCEPT !.nip42_auth = TRUE, !.nip42_dms = TRUE,
                  !.events = {"dm", "bobAtFirst", "carolAtOther"}, !.sends = 2]

\* Authentication that is switched off, or cannot succeed.
NoAuth == [Plain EXCEPT !.events = {"bobAtFirst"}, !.sends = 2]
NoUrl == [NoAuth EXCEPT !.nip42_auth = TRUE, !.relay_url = FALSE]

\* Two rules with windows of different length.
Rates ==
    [Plain EXCEPT
        !.filters = OneKind(20001, [PlainKind EXCEPT
            !.rate_limits = << [limit |-> 2, window |-> 2, scope |-> "ip"],
                               [limit |-> 1, window |-> 1, scope |-> "npub"] >>,
            !.errors = "rate_limited" :> "restricted"]),
        !.events = {"typing"}, !.sends = 3]

Lists(filters) == [Plain EXCEPT !.filters = filters, !.events = {"list", "typing"}]

KindLists ==
    { Lists([NoFilters EXCEPT !.whitelist = {3}, !.errors = "not_in_whitelist" :> "other"]),
      Lists([NoFilters EXCEPT !.blacklist = {3}]),
      [Lists(NoFilters) EXCEPT !.kind_blacklist = {3}],
      [Lists(NoFilters) EXCEPT !.kind_allowlist = {3}],
      [Lists(NoFilters) EXCEPT !.whitelist = {"bob"}],
      [Lists(OneKind(3, [PlainKind EXCEPT !.rate_limit = TRUE])) EXCEPT !.governed = TRUE] }

\* Whatever the relay can require of the fields of an event.
Strict ==
    [PlainKind EXCEPT
        !.max_size = 1, !.d_tag = "required", !.p_tag = "hex", !.required_tags = {"t"},
        !.tag_patterns = "t" :> {"1", "long"},
        !.tag_limits = [tags |-> 0, name |-> 2, value |-> 1],
        !.expiration = 0, !.max_expiration = 3,
        !.errors = "missing_tag" :> "unsupported"]

Fields ==
    {[Plain EXCEPT !.filters = OneKind(5, Strict), !.events = {e}] :
        e \in {"good", "large", "nod", "badp", "not", "badt", "longt", "never", "late"}}

Admission ==
    { [Plain EXCEPT !.pay = TRUE, !.cost = TRUE, !.whitelist = {"bob"},
                    !.events = {"list"}, !.faults = 2],
      [Plain EXCEPT !.events = {"list", "newer"}, !.sends = 2, !.reject_future = 0],
      [Plain EXCEPT !.events = {"page", "edited"}],
      [Plain EXCEPT !.nip05 = TRUE, !.events = {"list"}],
      [Plain EXCEPT !.events = {"gone", "erase"}, !.sends = 2],
      [Plain EXCEPT !.service = {"restricted", "pow"}, !.events = {"list"}],
      [Plain EXCEPT !.service = {}, !.events = {"typing"}, !.sends = 2, !.faults = 1] }

Malformed ==
    [Plain EXCEPT !.reject_future = 1, !.events = {"dead", "forged", "early"}]

Scenarios ==
    {Private, Restricted, DirectMessages, NoAuth, NoUrl, Rates, Malformed}
        \cup KindLists \cup Fields \cup Admission

-----------------------------------------------------------------------------
(* What the configuration gives to the constants.  TLC computes a definition once, *)
(* but one that stands for a constant anew at every use: hence the second names.   *)

TEXT == Texts
HEX == Hexes
CHARS == Lengths
TIMEOF == Numbers
IP == Addresses
EVENT == Events
CONTENT == Catalogue
IDOF == Ids
AUTHEVENT == AuthEvents
AUTHCONTENT == AuthCatalogue
SCENARIO == Scenarios

=============================================================================
