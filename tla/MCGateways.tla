----------------------------- MODULE MCGateways -----------------------------
(* One account, two keys of cards, three mails of which two answer, one    *)
(* key of the rate limit, the settings or one listener in each behaviour;  *)
(* two workers and two readers of one post that interests both;            *)
(* three rows; one event id; two bookmarks; three posters.                 *)
EXTENDS Gateways, TLC

CONSTANTS m1, m2, m3, u1, u2, p1

Gates == {"factor", "card", "mail", "limit", "settings", "stream"} \cup ViewGate
Share == [g \in Gates |-> CASE g = "card" -> 2 [] g = "settings" -> 3 [] g = "bookmarks" -> 3
                            [] g = "events" -> 1 [] OTHER -> 0]
Dates == {1, 2}
Mails == {m1, m2, m3}
Answers == (m1 :> NoMail) @@ (m2 :> m1) @@ (m3 :> m2)
Created == (p1 :> 0)
Starts == (p1 :> 2)
Ends == (p1 :> 4)
Interests == Reader \X Post
Alike == Permutations(Slot) \cup Permutations(RecoveryCode) \cup Permutations(AuthKey)
=============================================================================
