------------------------ MODULE MCWebhookProvisioning ------------------------
(* Strings "A" and "a" are one event spelt twice; " " is blank. *)
EXTENDS WebhookProvisioning, TLC

CONSTANTS u1, e1

CanonMC == [s \in {"a", "A", "b", " "} |->
              CASE s \in {"a", "A"} -> "a" [] s = "b" -> "b" [] s = " " -> ""]

RawListsMC == {{"a", "A"}, {"b", " "}, {" "}, {}}

OneDrifted == {[id |-> e1, url |-> u1, events |-> {"b"}]}

\* Runs for u1 use every mode and take turns; those for u2 only ensure.
ModesMC == [u \in URLs |-> IF u = u1 THEN {"", "replace", "other"} ELSE {"ensure"}]
OneTurns == {u1}

WantedMC == [u \in URLs |-> {"a"}]

\* The runs are alike, and so are the ids no initial endpoint has.
Symmetry == Permutations(Runs) \cup Permutations(Ids \ {e1})
====================================================================
