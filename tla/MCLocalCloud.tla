---------------------------- MODULE MCLocalCloud ----------------------------
(***************************************************************************)
(* One requester and two providers: p1 may offer the service at two URIs   *)
(* with different interfaces, one of them secured by tokens, and p2 offers *)
(* it at one.  Two rules are stored, and the ids in requests are those of  *)
(* a stored rule and of the first one that is added.                       *)
(***************************************************************************)
EXTENDS LocalCloud

Entry(u, p, is, sec) ==
    [uri |-> u, provider |-> p, service |-> "s1", interfaces |-> is, secure |-> sec]

MCOffers == {Entry("u1", "p1", {"i1"}, "not_secure"), Entry("u2", "p1", {"i2"}, "token"),
             Entry("u3", "p2", {"i1", "i2"}, "not_secure")}

MCInitialEntries == {e \in MCOffers : e.uri # "u1"}

MCRules == {[id |-> 1, consumer |-> "c1", provider |-> "p1", service |-> "s1"],
            [id |-> 2, consumer |-> "c1", provider |-> "p2", service |-> "s1"]}

MCLinks == {[rule |-> 1, interface |-> "i1"], [rule |-> 1, interface |-> "i2"],
            [rule |-> 2, interface |-> "i2"]}

Post(ps, ss, is) == [kind |-> "post", consumer |-> "c1", providers |-> ps, services |-> ss,
                     interfaces |-> is]

MCManagement == {Post({"p1", "p2"}, {"s1"}, {"i1"}), Post({"p2"}, {"s1"}, {"i1", "i2"}),
                 Post({"p1"}, {"s1", "s2"}, {"i1", "i2"}),
                 [kind |-> "delete", id |-> 2], [kind |-> "delete", id |-> 3],
                 [kind |-> "get", id |-> 2],
                 [kind |-> "list", sort |-> "id"], [kind |-> "list", sort |-> "createdAt"]}

Form == [requester |-> "c1", auth |-> "string", service |-> "s1", required |-> {},
         preferredExist |-> FALSE, preferred |-> {}, onlyPreferred |-> FALSE,
         matchmaking |-> FALSE]

Preferring == [Form EXCEPT !.onlyPreferred = TRUE, !.preferredExist = TRUE,
                           !.preferred = {[system |-> "p1", cloud |-> FALSE, fault |-> 0],
                                          [system |-> "p2", cloud |-> TRUE, fault |-> 0]}]

MCForms == {Form, [Form EXCEPT !.matchmaking = TRUE], [Form EXCEPT !.required = {"i1"}],
            Preferring, [Preferring EXCEPT !.matchmaking = TRUE],
            [Form EXCEPT !.onlyPreferred = TRUE],
            [Form EXCEPT !.auth = "null"], [Form EXCEPT !.auth = "absent"],
            [Form EXCEPT !.service = Missing]}
=============================================================================
