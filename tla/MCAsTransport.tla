----------------------------- MODULE MCAsTransport -----------------------------
(* One request of each route and calls without a context.  The calls are the  *)
(* ones the stock plugins make and variations that break one rule each.       *)
EXTENDS AsTransport, TLC

CONSTANTS reqA, reqB

MCContexts == {reqA, reqB}
MCRouteOf  == (reqA :> "A") @@ (reqB :> "B")

None_ == [present |-> "no", age |-> 0, life |-> 0]
Claims(age, life) == [present |-> "full", age |-> age, life |-> life]

Get(t) == [DiscoveryCall EXCEPT !.target = t]

Post(t, client, assertion) ==
    [ target |-> t, method |-> "POST", body |-> TRUE, options_ok |-> TRUE,
      supplied |-> "none", form_ok |-> TRUE, client_id |-> client,
      grant_type |-> IF t = "token" THEN "authorization_code" ELSE "other",
      token |-> IF t = "revocation" THEN "t1" ELSE "none", assertion |-> assertion ]

Good ==
    { Get("discovery"), Post("par", "A", None_), Post("token", "A", None_),
      Post("token", "B", None_), [Post("token", "B", None_) EXCEPT !.grant_type = "refresh_token"],
      Post("par", "B", Claims(0, 60)), [Post("par", "A", None_) EXCEPT !.supplied = "A"],
      Post("revocation", "absent", Claims(55, 60)),
      [Post("revocation", "B", Claims(1, 30)) EXCEPT !.token = "t2"] }

Bad ==
    { Get("unknownAS"), Get("external"), [Get("discovery") EXCEPT !.body = TRUE],
      [Get("discovery") EXCEPT !.method = "invalid"], [Get("jwks") EXCEPT !.supplied = "half"],
      [Post("par", "A", None_) EXCEPT !.supplied = "B"],
      [Post("par", "A", None_) EXCEPT !.form_ok = FALSE],
      [Post("token", "A", None_) EXCEPT !.options_ok = FALSE],
      [Post("token", "A", None_) EXCEPT !.grant_type = "other"],
      Post("token", "absent", None_), Post("token", "B", Claims(0, 60)),
      Post("token", "A", [None_ EXCEPT !.present = "partial"]), Post("par", "B", None_),
      Post("par", "B", Claims(56, 60)), Post("par", "B", Claims(0, 61)),
      Post("par", "B", Claims(-1, 60)), Post("par", "B", Claims(0, 0)),
      [Post("revocation", "B", Claims(0, 60)) EXCEPT !.token = "none"] }

MCCalls == Good \cup Bad
=============================================================================
