---------------------------- MODULE MCCommunity -----------------------------
(* One team, one posting, one title of certificates, two businesses, the   *)
(* profiles, one file or the account of one person in each behaviour.      *)
EXTENDS Community, TLC

Topics == {"team", "challenge", "certificate", "business", "profile", "upload", "account"}
Share == [x \in Topics |->
            CASE x = "team" -> 0 [] x = "challenge" -> 4 [] x = "certificate" -> 1
              [] x = "business" -> 2 [] x = "profile" -> 4 [] x = "upload" -> 1 [] OTHER -> 0]
TeamOnly == {"team"}
Whole == [x \in TeamOnly |-> 0]
Alike == Permutations(Slot) \cup Permutations(User) \cup Permutations(App) \cup Permutations(Cert)
=============================================================================
