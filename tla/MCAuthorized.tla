--------------------------- MODULE MCAuthorized ---------------------------
(***************************************************************************)
(* An instance of Authorized: a manager and a user; the second policy      *)
(* leaves the user only finishing, hides a record and lowers the quotas.   *)
(***************************************************************************)
EXTENDS Authorized

MCQuota(s, c, l) == [request |-> 1, staged |-> s, committed |-> c, live |-> l]
MCUploads == {"StartUpload", "ResumeUpload", "WriteUpload", "FinishUpload", "AbortUpload"}
MCAll == MCUploads \cup {"Commit", "ReadRecord", "ManageSchema", "ManagePolicy"}
MCManager == MCAll \ (MCUploads \ {"ResumeUpload"})
MCNone == [r \in {} |-> {}]
MCFirst == NamespacePolicy(1, MCQuota(5, 3, 2),
  "m" :> Grant(MCManager, MCQuota(5, 3, 2), MCNone) @@
  "u" :> Grant(MCAll \ {"ManagePolicy", "ManageSchema"}, MCQuota(5, 3, 1), MCNone))
MCSecond == NamespacePolicy(2, MCQuota(3, 3, 2),
  "m" :> Grant(MCManager, MCQuota(3, 3, 2), MCNone) @@
  "u" :> Grant({"ReadRecord", "Commit", "FinishUpload"}, MCQuota(0, 0, 1), "r1" :> {"ReadRecord"}))
MCPolicies == <<MCFirst, MCSecond>>
MCCases == {<<"memory", "uploads">>, <<"disk", "uploads">>, <<"memory", "reads">>,
            <<"memory_plain", "reads">>, <<"disk", "reads">>, <<"packed", "reads">>}
MCCaps == MCQuota(5, 3, 2)
CONSTANTS t1, t2, s1, s2
MCSymmetry == Permutations({t1, t2}) \cup Permutations({s1, s2})
ASSUME \A v \in DOMAIN MCPolicies : ValidPolicy(MCPolicies[v], MCCaps)
=============================================================================
