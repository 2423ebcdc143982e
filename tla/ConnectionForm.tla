--------------------------- MODULE ConnectionForm ---------------------------
(***************************************************************************)
(* The form by which a connection is added.  One set of fields serves six  *)
(* ways to connect: a field keeps what was typed into it while the form    *)
(* shows another way's fields.  Host, port and SSH port have defaults and  *)
(* are left alone here; what one way requires is one field.                *)
(***************************************************************************)
EXTENDS Naturals, FiniteSets

CONSTANT MaxFilled  \* bound: fields filled in at once

ASSUME FilledAssumption == MaxFilled \in Nat

VARIABLES
  authType,
  filled,        \* the fields that are not empty
  useTls,
  tlsTrustMode,
  sshEnabled,
  sshAuthMode,
  submitted      \* the fields just handed over, and those of them shown then

formPart == <<authType, filled, useTls, tlsTrustMode, sshEnabled, sshAuthMode, submitted>>

HOST_PORT_TYPES == {"PASSWORD", "USERNAME_PASSWORD"}
SSH_SUPPORTED_TYPES == {"PASSWORD", "USERNAME_PASSWORD"}
AuthTypes == HOST_PORT_TYPES \cup {"URL", "SENTINEL", "CLUSTER", "SOCKET"}

TlsFields == {"tlsCaCert", "tlsClientCert"}
SshFields == {"sshHost", "sshPassword", "sshPrivateKey"}
Fields ==
  {"username", "password", "url", "sentinelNodes", "sentinelPassword", "clusterNodes", "socketPath"}
    \cup TlsFields \cup SshFields

FormTypeOK ==
  /\ authType \in AuthTypes /\ filled \subseteq Fields
  /\ useTls \in BOOLEAN /\ tlsTrustMode \in {"system", "skip", "custom"}
  /\ sshEnabled \in BOOLEAN /\ sshAuthMode \in {"password", "key"}
  /\ submitted.fields \subseteq Fields /\ submitted.shown \subseteq Fields

-----------------------------------------------------------------------------
(* What the form shows.                                                     *)
ShownForType ==
  CASE authType = "URL"      -> {"url"}
    [] authType = "SENTINEL" -> {"sentinelNodes", "sentinelPassword"}
    [] authType = "CLUSTER"  -> {"clusterNodes", "password"}
    [] authType = "SOCKET"   -> {"socketPath", "password"}
    [] authType = "PASSWORD" -> {"password"}
    [] OTHER                 -> {"username", "password"}

ShownForTls ==
  IF authType \in HOST_PORT_TYPES /\ useTls
  THEN {"tlsClientCert"} \cup (IF tlsTrustMode = "custom" THEN {"tlsCaCert"} ELSE {})
  ELSE {}

ShownForSsh ==
  IF authType \in SSH_SUPPORTED_TYPES /\ sshEnabled
  THEN {"sshHost", IF sshAuthMode = "password" THEN "sshPassword" ELSE "sshPrivateKey"}
  ELSE {}

FormShows == ShownForType \cup ShownForTls \cup ShownForSsh

-----------------------------------------------------------------------------
NothingSubmitted == submitted' = [fields |-> {}, shown |-> {}]

FormInit ==
  /\ authType = "PASSWORD" /\ filled = {} /\ useTls = FALSE /\ tlsTrustMode = "system"
  /\ sshEnabled = FALSE /\ sshAuthMode = "password"
  /\ submitted = [fields |-> {}, shown |-> {}]

resetForm ==
  /\ authType' = "PASSWORD" /\ filled' = {} /\ useTls' = FALSE /\ tlsTrustMode' = "system"
  /\ sshEnabled' = FALSE /\ sshAuthMode' = "password"

setAuthType(t) ==
  /\ t # authType /\ authType' = t /\ useTls' = FALSE /\ NothingSubmitted
  /\ UNCHANGED <<filled, tlsTrustMode, sshEnabled, sshAuthMode>>

FillIn(f) ==
  /\ f \in FormShows /\ NothingSubmitted
  /\ filled' = IF f \in filled THEN filled \ {f} ELSE filled \cup {f}
  /\ Cardinality(filled') <= MaxFilled
  /\ UNCHANGED <<authType, useTls, tlsTrustMode, sshEnabled, sshAuthMode>>

SetTls ==
  /\ authType \in HOST_PORT_TYPES \cup {"CLUSTER"} /\ NothingSubmitted
  /\ \/ useTls' = ~useTls /\ UNCHANGED tlsTrustMode
     \/ /\ ShownForTls # {} /\ tlsTrustMode' \in {"system", "skip", "custom"}
        /\ UNCHANGED useTls
  /\ UNCHANGED <<authType, filled, sshEnabled, sshAuthMode>>

SetSsh ==
  /\ authType \in SSH_SUPPORTED_TYPES /\ NothingSubmitted
  /\ \/ sshEnabled' = ~sshEnabled /\ UNCHANGED sshAuthMode
     \/ sshEnabled /\ sshAuthMode' \in {"password", "key"} /\ UNCHANGED sshEnabled
  /\ UNCHANGED <<authType, filled, useTls, tlsTrustMode>>

-----------------------------------------------------------------------------
(* handleSubmit: the fields that are required, and the ones it hands over.  *)
Required ==
  CASE authType = "URL"      -> {"url"}
    [] authType = "SENTINEL" -> {"sentinelNodes"}
    [] authType = "CLUSTER"  -> {"clusterNodes"}
    [] authType = "SOCKET"   -> {"socketPath"}
    [] authType = "PASSWORD" -> {}
    [] OTHER                 -> {"username"}

sshSecret == IF sshAuthMode = "password" THEN "sshPassword" ELSE "sshPrivateKey"
sshFields ==
  IF sshEnabled /\ authType \in SSH_SUPPORTED_TYPES THEN {"sshHost", sshSecret} ELSE {}

tlsFields_WithoutTls ==
  IF authType \in HOST_PORT_TYPES
  THEN (IF tlsTrustMode = "custom" THEN {"tlsCaCert"} ELSE {}) \cup {"tlsClientCert"}
  ELSE {}

tlsFields ==
  IF useTls /\ authType \in HOST_PORT_TYPES
  THEN (IF tlsTrustMode = "custom" THEN {"tlsCaCert"} ELSE {}) \cup {"tlsClientCert"}
  ELSE {}

HandedOver ==
  IF authType \in HOST_PORT_TYPES
  THEN {"password"} \cup Required \cup sshFields \cup tlsFields
  ELSE Required \cup (CASE authType = "URL" -> {}
                        [] authType = "SENTINEL" -> {"sentinelPassword"}
                        [] OTHER -> {"password"})

submitForm ==
  /\ Required \cup sshFields \subseteq filled
  /\ submitted' = [fields |-> HandedOver \cap filled, shown |-> FormShows \cap filled]
  /\ resetForm

FormNext ==
  \/ \E t \in AuthTypes : setAuthType(t)
  \/ \E f \in Fields : FillIn(f)
  \/ SetTls \/ SetSsh \/ submitForm

FormSpec == FormInit /\ [][FormNext]_formPart

-----------------------------------------------------------------------------
(* The connection added has just what the form showed when it was added:    *)
(* nothing that was typed for another way to connect, and all of this one.  *)
HandsOverWhatItShows == submitted.fields = submitted.shown
=============================================================================
