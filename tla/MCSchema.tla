------------------------------ MODULE MCSchema ------------------------------
(* One check and one sync of three schemas, two of them expected, in pages of *)
(* one, beside a writer who changes two entries.                              *)
EXTENDS SchemaInventory
S(body, crlf, newlines) == [body |-> body, crlf |-> crlf, newlines |-> newlines]
MCSources == {S("new", FALSE, 1), S("new", TRUE, 0), S("new", FALSE, 2)}
MCExpected == [n \in {1, 3} |-> S("new", FALSE, 1)]
MCOperation == [r \in Runs |-> IF r = "check" THEN "schema-check" ELSE "schema-sync"]
=============================================================================
