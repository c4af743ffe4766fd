----------------------------- MODULE ScanPolicy -----------------------------
(***************************************************************************)
(* The gate every publishing operation of the registry asks: is the build  *)
(* of a version ready, and do the recorded scan results let it through?    *)
(*                                                                         *)
(* A recorded result is a (mode, passed) pair in the database.  Only six   *)
(* classes of pairs are told apart by the code, so a result is one word:   *)
(*   "none"     no review_provider_results row for the provider            *)
(*   "pending"  mode pending                                               *)
(*   "passed"   mode real, passed true                                     *)
(*   "failed"   mode real, passed false or null                            *)
(*   "error"    mode error                                                 *)
(*   "skipped"  mode skipped, whatever passed says                         *)
(***************************************************************************)

CONSTANTS Providers,   \* names in the scan provider registry
          VT,          \* the provider that answers asynchronously: virustotal
          Legacy       \* providers with columns in security_scans

Verdicts == {"pending", "passed", "failed", "error", "skipped"}
Results  == Verdicts \cup {"none"}

BuildStatuses   == {"pending", "building", "success", "failed", "scanning"}
VersionStatuses == {"draft", "active", "deprecated", "deleted"}

ASSUME ProvidersAssumption == /\ VT \in Legacy
                              /\ Legacy \subseteq Providers

(* What scan_provider_results reports for provider p: its own row, or the  *)
(* columns of the security_scans row.  Every writer of those columns also  *)
(* writes the provider's row, so without a row they hold their default,    *)
(* which is pending.                                                       *)
Shown(rows, hasScan, p) ==
    IF rows[p] = "none" /\ hasScan /\ p \in Legacy THEN "pending" ELSE rows[p]

(* scan_providers_passed with an explicit list of required providers: a    *)
(* provider with no result at all blocks.                                  *)
ScanPassed(rows, hasScan, required) ==
    \A p \in required : Shown(rows, hasScan, p) \in {"passed", "skipped"}

(* scan_providers_pending *)
ScanPending(rows, hasScan, required) ==
    \E p \in required : Shown(rows, hasScan, p) = "pending"

(* build_ready_for_scan_policy *)
BuildReady(build, rows, hasScan, required) ==
    \/ build = "success"
    \/ build = "scanning" /\ ~ScanPending(rows, hasScan, required)

(* The two checks in the order the publishing operations make them. *)
Publishable(build, rows, hasScan, required) ==
    /\ BuildReady(build, rows, hasScan, required)
    /\ ScanPassed(rows, hasScan, required)
=============================================================================
