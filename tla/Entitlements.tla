----------------------------- MODULE Entitlements -----------------------------
(***************************************************************************)
(* Editions and the license file (core/editions.py, core/licensing.py).    *)
(* Whether the signature of a license verifies is a flag of it.            *)
(***************************************************************************)
EXTENDS Integers

CONSTANTS
    Times,       \* moments, in the clock's order
    Never,       \* the license has no expires_at
    Malformed,   \* expires_at is no ISO 8601 date
    NoLicense,   \* the file is missing, or is no JSON object
    Undecodable  \* the file is not UTF-8

ASSUME TimesAssumption ==
    Times \subseteq Nat /\ 0 \in Times /\ {Never, Malformed} \cap Times = {} /\ Never # Malformed

Editions == {"free", "pro", "enterprise"}

\* "other" is a name of no edition.
Licenses ==
    [signed : BOOLEAN, expires : Times \cup {Never, Malformed}, edition : Editions \cup {"other"}]

FREE_FEATURES ==
    {"local-pipeline", "single-device", "runtime:gguf", "runtime:executorch",
     "runtime:tflite-coreml", "model-size:<=100M"}
PRO_FEATURES == FREE_FEATURES \cup
    {"model-size:>100M", "remote-training", "model-registry", "fleet-deploy", "teams"}
ENTERPRISE_FEATURES == PRO_FEATURES \cup
    {"sso", "policy-engine", "audit-sink", "on-prem-control-plane"}

FeaturesByEdition(edition) ==
    CASE edition = "free"       -> FREE_FEATURES
      [] edition = "pro"        -> PRO_FEATURES
      [] edition = "enterprise" -> ENTERPRISE_FEATURES

\* Variant: a date that does not parse is ignored.
ExpiredIfDated(license, now) == license.expires \in Times /\ now > license.expires

\* is_expired: a license is still good at the very moment of its expiry.
Expired(license, now) ==
    \/ license.expires = Malformed
    \/ license.expires \in Times /\ now > license.expires

\* _edition_from_license and resolve_entitlements: SG2_EDITION can force the free
\* edition, and nothing else.
Resolve(forcedFree, license, now) ==
    IF forcedFree \/ license = NoLicense THEN "free"
    ELSE IF ~license.signed \/ Expired(license, now) \/ license.edition \notin Editions THEN "free"
    ELSE license.edition

\* read_text raises UnicodeDecodeError, which nobody catches: a command that asks for the
\* entitlements ends.
Resolvable(forcedFree, license) == forcedFree \/ license # Undecodable

Features(forcedFree, license, now) ==
    IF Resolvable(forcedFree, license)
    THEN FeaturesByEdition(Resolve(forcedFree, license, now))
    ELSE {}
=============================================================================
