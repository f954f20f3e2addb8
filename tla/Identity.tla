------------------------------- MODULE Identity -------------------------------
(***************************************************************************)
(* identify (core/src/identity.cpp): who made this printer?  GS I is a     *)
(* string the firmware chooses, so it is weighed against the vendor the    *)
(* MAC address belongs to, the caller's hint and how the device behaved.   *)
(* One state holds what is known of a device, and one step assesses it.    *)
(***************************************************************************)
EXTENDS Integers, FiniteSets

CONSTANTS
    Vendors       \* vendors an OUI, GS I or the caller may name, Epson among them

VARIABLES
    subject,      \* what is known of the device
    assessment    \* IdentityAssessment, once identify has run

vars == <<subject, assessment>>

Nobody == ""

(* EPOSN is Rongta's documented impersonation of Epson, SEIKO the other    *)
(* name of Epson; "unlisted" is an OUI that is in no table.                *)
Subjects ==
    [maker   : Vendors \cup {Nobody, "EPOSN", "SEIKO"},
     oui     : Vendors \cup {Nobody, "unlisted"},
     hint    : Vendors \cup {Nobody},
     model   : {"none", "TM-T88V", "SLK-TS", "other"},
     gsh     : {"unset", "no", "yes"},
     dle     : {"unset", "no", "yes"},
     asb     : {"unset", "no", "yes"}]

-----------------------------------------------------------------------------

(* vendorFromManufacturer: the vendor the GS I strings claim.  Some clones *)
(* leave the maker blank and put everything in the model name.             *)
Claimed(d) ==
    CASE d.maker = "SEIKO" -> "Epson"
      [] d.maker = Nobody /\ d.model = "SLK-TS" -> "Sewoo"
      [] OTHER -> d.maker

(* profileForModel: the profile of the models the database has. *)
ProfileForModel(model) ==
    CASE model = "TM-T88V" -> "epson_tm_t88" [] model = "SLK-TS" -> "sewoo_slk_ts" [] OTHER -> ""

(* ouiVendor: an address whose prefix no table has names nobody. *)
OuiVendor(d) == IF d.oui = "unlisted" THEN Nobody ELSE d.oui

Points(condition, n) == IF condition THEN n ELSE 0

Verdict(vendor, trusted, suspected, profile, score) ==
    [vendor |-> vendor, trusted |-> trusted, suspected |-> suspected,
     profile |-> profile, score |-> score]

AsEposn(d) ==
    LET oui == OuiVendor(d)
        other == oui \notin {Nobody, "Rongta"}
    IN  Verdict(IF oui = Nobody THEN "Rongta" ELSE oui, FALSE, TRUE,
                IF other THEN "generic_80" ELSE "rongta_rp80",
                60 - Points(other, 20) + Points(d.gsh = "yes", 20) + Points(d.dle = "yes", 10))

(* A device that says it is an Epson. *)
AsEpson(d) ==
    LET oui == OuiVendor(d)
        target == d.model = "TM-T88V"
        contradicted == d.dle = "no" \/ d.asb = "no"
    IN  CASE oui = "Epson" -> Verdict("Epson", TRUE, FALSE, "", 70)
          [] oui # "Epson" /\ (oui # Nobody \/ contradicted \/ (d.oui = "unlisted" /\ target)) ->
                IF target
                THEN Verdict(IF oui = Nobody THEN "Rongta" ELSE oui, FALSE, TRUE,
                             "rongta_rp80", 55 + Points(d.gsh = "yes", 10))
                ELSE Verdict(IF oui = Nobody THEN "Unknown" ELSE oui, FALSE, TRUE,
                             "generic_80", 35)
          [] OTHER -> Verdict("Epson", FALSE, FALSE, "", IF d.oui = "unlisted" THEN 40 ELSE 50)

(* A device that names any other vendor. *)
AsClaimed(d) ==
    CASE OuiVendor(d) = Claimed(d) -> Verdict(Claimed(d), TRUE, FALSE, "", 70)
      [] OuiVendor(d) = Nobody     -> Verdict(Claimed(d), FALSE, FALSE, "", 50)
      [] OTHER                     -> Verdict(OuiVendor(d), FALSE, TRUE, "", 35)

(* A device that does not say. *)
AsUnnamed(d) ==
    CASE OuiVendor(d) # Nobody -> Verdict(OuiVendor(d), FALSE, FALSE, "", 40)
      [] OuiVendor(d) = Nobody /\ d.hint # Nobody -> Verdict(d.hint, FALSE, FALSE, "", 20)
      [] OTHER -> Verdict("Unknown", FALSE, FALSE, "", 0)

(* A model the database has names the profile; a suspect keeps the generic *)
(* one.  The hint may agree, and no score reaches 100.                     *)
Completed(d, v) ==
    LET matched == ProfileForModel(d.model) # "" /\ ~v.suspected /\ v.profile \in {"", "generic_80"}
        score == v.score + Points(matched, 15)
                         + Points(d.hint # Nobody /\ d.hint = v.vendor, 10)
    IN  [v EXCEPT !.profile = IF matched THEN ProfileForModel(d.model)
                              ELSE IF @ = "" THEN "generic_80" ELSE @,
                  !.score = IF score > 99 THEN 99 ELSE score,
                  !.trusted = @ /\ ~v.suspected]

Identify(d) ==
    Completed(d, CASE Claimed(d) = "EPOSN" -> AsEposn(d)
                   [] Claimed(d) = "Epson" -> AsEpson(d)
                   [] Claimed(d) = Nobody  -> AsUnnamed(d)
                   [] OTHER                -> AsClaimed(d))

NotAssessed == Verdict(Nobody, FALSE, FALSE, "", -1)

-----------------------------------------------------------------------------

Init == subject \in Subjects /\ assessment = NotAssessed

Assess ==
    /\ assessment = NotAssessed
    /\ assessment' = Identify(subject)
    /\ UNCHANGED subject

Next == Assess

Spec == Init /\ [][Next]_vars

-----------------------------------------------------------------------------

(* No claim of the firmware is trusted on its own: a trusted identity is   *)
(* one the MAC address's owner confirms, and never a suspected one.        *)
TrustIsCorroborated ==
    assessment.trusted => /\ OuiVendor(subject) = Claimed(subject)
                          /\ assessment.vendor = Claimed(subject)
                          /\ ~assessment.suspected

(* The owner of the MAC address outranks whatever the device says of       *)
(* itself, in every branch and whatever the caller hinted.                 *)
AddressOutranksClaim ==
    assessment # NotAssessed /\ OuiVendor(subject) # Nobody =>
        assessment.vendor = OuiVendor(subject)
=============================================================================
