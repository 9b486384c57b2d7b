------------------------------ MODULE SyncTls ------------------------------
(***************************************************************************)
(* SyncTlsConfig of server.go: the TLS configuration that the accept loop  *)
(* gives to new connections while OnSSLConfig may replace it.              *)
(*                                                                         *)
(* A *tls.Config is a number; 0 is the empty one of NewSyncTlsConfig.  It  *)
(* becomes the current one before BuildNameToCertificate has filled it,    *)
(* and nothing but the lock keeps it from sessions until then.  OnSSLConfig *)
(* has one caller at a time (its comment: "called by a synched method").   *)
(***************************************************************************)
EXTENDS Naturals

CONSTANT MaxLoads  \* bounds the configurations that are installed

ASSUME LoadsAssumption == MaxLoads \in Nat

VARIABLES
  tlsConfig,  \* SyncTlsConfig.tlsConfig
  tlsLock,    \* SyncTlsConfig.lock is held for writing
  built,      \* the configurations whose names are built
  reload      \* the statement of setTlsConfig its caller has reached

tlsVars == <<tlsConfig, tlsLock, built, reload>>

TlsTypeOK ==
  /\ tlsConfig \in 0..MaxLoads
  /\ tlsLock \in BOOLEAN
  /\ built \subseteq 0..MaxLoads
  /\ reload \in {"idle", "load", "build"}

TlsInit ==
  /\ tlsConfig = 0
  /\ tlsLock = FALSE
  /\ built = {0}
  /\ reload = "idle"

OnSSLConfig ==
  /\ reload = "idle"
  /\ tlsConfig < MaxLoads
  /\ reload' = "load"
  /\ UNCHANGED <<tlsConfig, tlsLock, built>>

(* A key pair cannot be read: OnSSLConfig drops the error, and the          *)
(* configuration stays what it was.                                         *)
LoadFails ==
  /\ reload = "load"
  /\ reload' = "idle"
  /\ UNCHANGED <<tlsConfig, tlsLock, built>>

(* Faulty variant: the pointer is replaced without the lock. *)
InstallUnlocked ==
  /\ reload = "load"
  /\ tlsConfig' = tlsConfig + 1
  /\ reload' = "build"
  /\ UNCHANGED <<tlsLock, built>>

(* s.lock.Lock(); s.tlsConfig = tlsConfig *)
Install ==
  /\ reload = "load"
  /\ tlsLock' = TRUE
  /\ tlsConfig' = tlsConfig + 1
  /\ reload' = "build"
  /\ UNCHANGED built

(* BuildNameToCertificate and the deferred Unlock. *)
BuildNames ==
  /\ reload = "build"
  /\ built' = built \cup {tlsConfig}
  /\ tlsLock' = FALSE
  /\ reload' = "idle"
  /\ UNCHANGED tlsConfig

setTlsConfig == OnSSLConfig \/ LoadFails \/ Install \/ BuildNames

(* getTlsConfig waits for the lock, and returns tlsConfig. *)
getTlsConfig == ~tlsLock
=============================================================================
