---------------------------- MODULE UpstreamTls ----------------------------
(***************************************************************************)
(* The certificates of the query proxy's connection to the metrics server  *)
(* (proxy/pkg/proxy/tls.go).  They are read from three files of two        *)
(* mounted secrets; the kubelet swaps a symbolic link of either, and a     *)
(* version is one of both.  A goroutine resolves the links again and again *)
(* and reads the files when one leads elsewhere.                           *)
(***************************************************************************)
EXTENDS Naturals

CONSTANTS
    MaxRotations, \* bound: swaps of the files
    MaxTlsFaults  \* bound: reads that fail

VARIABLES
    files,        \* version of the files
    conn,         \* the TLS configuration: versions of the CA and of the key pair
    paths,        \* realPaths
    caRead,       \* version of the CA read for the next configuration
    tls,          \* where the goroutine is
    target,       \* newRealPaths
    early,        \* ghost: the files were swapped while the transport was made
    tlsFaults

tlsVars == <<files, conn, paths, caRead, tls, target, early, tlsFaults>>

Version == 0..MaxRotations

TlsTypeOK ==
    /\ files \in Version /\ conn \in [ca : Version, pair : Version] /\ paths \in Version
    /\ caRead \in Version /\ target \in Version
    /\ tls \in {"newCA", "newPair", "newPaths", "idle", "reload", "reloadPair"}
    /\ early \in BOOLEAN /\ tlsFaults \in 0..MaxTlsFaults

TlsInit ==
    /\ files = 0 /\ conn = [ca |-> 0, pair |-> 0] /\ paths = 0 /\ caRead = 0 /\ target = 0
    /\ tls = "newCA" /\ early = FALSE /\ tlsFaults = 0

Rotate ==
    /\ files < MaxRotations /\ files' = files + 1
    /\ early' = (early \/ tls \in {"newPair", "newPaths"})
    /\ UNCHANGED <<conn, paths, caRead, tls, target, tlsFaults>>

\* All files are read before the configuration is replaced
reloadTLSConfig(from, then, next) ==
    \/ /\ tls = from /\ tls' = then
       /\ caRead' = files /\ UNCHANGED <<conn, tlsFaults>>
    \/ /\ tls = then /\ tls' = next
       /\ conn' = [ca |-> caRead, pair |-> files] /\ UNCHANGED <<caRead, tlsFaults>>

\* newReloadingTransport: the configuration first, then the paths; a failure
\* ends the process
newReloadingTransport ==
    /\ \/ reloadTLSConfig("newCA", "newPair", "newPaths") /\ UNCHANGED paths
       \/ /\ tls = "newPaths" /\ tls' = "idle"
          /\ paths' = files /\ UNCHANGED <<conn, caRead, tlsFaults>>
    /\ UNCHANGED <<files, target, early>>

\* The link leads elsewhere
checkForReload ==
    /\ tls = "idle" /\ files # paths
    /\ target' = files /\ tls' = "reload"
    /\ UNCHANGED <<files, conn, paths, caRead, early, tlsFaults>>

ReloadOnce ==
    /\ \/ /\ reloadTLSConfig("reload", "reloadPair", "idle")
          /\ paths' = target
       \/ /\ tls \in {"reload", "reloadPair"} /\ tls' = "idle"
          /\ tlsFaults < MaxTlsFaults /\ tlsFaults' = tlsFaults + 1
          /\ paths' = target /\ UNCHANGED <<conn, caRead>>
    /\ UNCHANGED <<files, target, early>>

\* The paths are kept only after a reload that succeeded; one that failed for 30
\* seconds is left to the next poll
Reload ==
    /\ \/ /\ reloadTLSConfig("reload", "reloadPair", "idle")
          /\ paths' = IF tls' = "idle" THEN target ELSE paths
       \/ /\ tls \in {"reload", "reloadPair"} /\ tls' = "idle"
          /\ tlsFaults < MaxTlsFaults /\ tlsFaults' = tlsFaults + 1
          /\ UNCHANGED <<conn, paths, caRead>>
    /\ UNCHANGED <<files, target, early>>

TlsNext == Rotate \/ newReloadingTransport \/ checkForReload \/ Reload

TlsSpec == TlsInit /\ [][TlsNext]_tlsVars

\* The polling goroutine runs
TlsFair ==
    /\ WF_tlsVars(newReloadingTransport)
    /\ WF_tlsVars(checkForReload) /\ WF_tlsVars(Reload)

-----------------------------------------------------------------------------
\* The connection comes to use the certificates in the files
CertificatesRight == early \/ conn = [ca |-> files, pair |-> files]
CertificatesSettle == <>[]CertificatesRight

\* No swap of the files goes unnoticed: when nothing is left to reload the
\* connection is right, although the files are read one after the other, and
\* whatever reads have failed
NoSwapMissed == tls = "idle" /\ paths = files => CertificatesRight

=============================================================================
