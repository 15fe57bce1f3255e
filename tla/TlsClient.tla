------------------------------ MODULE TlsClient ------------------------------
(***************************************************************************)
(* The TLS client of tunnel/tls/client.go.  NewClient checks the           *)
(* configured fingerprint, defaults the SNI to the remote host and loads   *)
(* the custom CA file; DialConn dials a connection from the underlying     *)
(* (transport) client, wraps it in a utls client when a fingerprint is     *)
(* set and in a crypto/tls client otherwise, and runs the handshake;       *)
(* Close closes the underlying client.  Callers dial concurrently; each    *)
(* dial is one goroutine.                                                  *)
(*                                                                         *)
(* The configuration is abstracted to the cases NewClient tells apart, the *)
(* sockets to their open / closed state.  The underlying dial and the      *)
(* handshake succeed or fail; a handshake with certificate verification on *)
(* and a CA file holding no certificate always fails.                      *)
(***************************************************************************)
EXTENDS Naturals, FiniteSets

CONSTANTS
    Dials       \* the DialConn calls made on the client

\* cfg.TLS.Fingerprint: empty, one of the three profiles, or another name.
Fingerprints == {"", "firefox", "chrome", "ios", "other"}

\* The utls profiles NewClient knows (its switch on cfg.TLS.Fingerprint).
HelloIDs == {"firefox", "chrome", "ios"}

\* cfg.TLS.SNI: unset, or a configured name.
SNIs == {"", "sni"}

\* cfg.TLS.CertPath: unset, a file of PEM certificates, a readable file
\* with none, or a file that cannot be read.
CertFiles == {"", "pem", "nopem", "unreadable"}

\* The configurations NewClient is called with.
Configs == [fingerprint : Fingerprints, sni : SNIs, cert : CertFiles,
            verify : BOOLEAN]

DialStates == {"idle", "handshaking", "returned", "failed"}

VARIABLES
    cfg,        \* the configuration in the context
    built,      \* NewClient has not run, returned the Client, or an error
    client,     \* the fields of the Client, zero until NewClient builds it
    dial,       \* where each DialConn call is
    raw,        \* the underlying connection of each call
    closed      \* Close has been called

vars == <<cfg, built, client, dial, raw, closed>>

\* The fields of Client that DialConn reads.
Clients == [sni : {"", "remote", "sni"}, ca : {"system", "custom", "empty"},
            utls : BOOLEAN, verify : BOOLEAN]

\* The zero Client: empty SNI, nil CA pool (the system's), no fingerprint.
ZeroClient == [sni |-> "", ca |-> "system", utls |-> FALSE, verify |-> FALSE]

TypeOK ==
    /\ cfg \in Configs
    /\ built \in {"none", "client", "error"}
    /\ client \in Clients
    /\ dial \in [Dials -> DialStates]
    /\ raw \in [Dials -> {"none", "open", "closed"}]
    /\ closed \in BOOLEAN

Init ==
    /\ cfg \in Configs
    /\ built = "none"
    /\ client = ZeroClient
    /\ dial = [d \in Dials |-> "idle"]
    /\ raw = [d \in Dials |-> "none"]
    /\ closed = FALSE

-----------------------------------------------------------------------------

\* The root CAs NewClient leaves in client.ca: nil (the system pool), or a
\* new pool with the certificates AppendCertsFromPEM found, which may be
\* none (it only warns).
CAOf(c) == CASE c.cert = ""      -> "system"
             [] c.cert = "pem"   -> "custom"
             [] c.cert = "nopem" -> "empty"

\* NewClient: an unknown fingerprint or an unreadable CA file is an error;
\* otherwise the Client, with the SNI defaulted to the remote host.
NewClient ==
    /\ built = "none"
    /\ IF \/ cfg.fingerprint \notin HelloIDs \cup {""}
          \/ cfg.cert = "unreadable"
       THEN /\ built' = "error"
            /\ UNCHANGED client
       ELSE /\ built' = "client"
            /\ client' = [sni    |-> IF cfg.sni = "" THEN "remote" ELSE cfg.sni,
                          ca     |-> CAOf(cfg),
                          utls   |-> cfg.fingerprint # "",
                          verify |-> cfg.verify]
    /\ UNCHANGED <<cfg, dial, raw, closed>>

\* DialConn, first step: c.underlay.DialConn.  A failure is returned.
UnderlayDial(d) ==
    /\ built = "client"
    /\ dial[d] = "idle"
    /\ \/ /\ raw' = [raw EXCEPT ![d] = "open"]
          /\ dial' = [dial EXCEPT ![d] = "handshaking"]
       \/ /\ dial' = [dial EXCEPT ![d] = "failed"]
          /\ UNCHANGED raw
    /\ UNCHANGED <<cfg, built, client, closed>>

\* The handshake can only succeed when the server's chain can be verified
\* or verification is off.
CanVerify == client.ca # "empty" \/ ~client.verify

\* DialConn, second step: tlsConn.Handshake() on the utls or the crypto/tls
\* client.  On success the connection is returned; on failure the error
\* is returned and conn, the underlying connection, is left as it is.
Handshake(d) ==
    /\ dial[d] = "handshaking"
    /\ \/ /\ CanVerify
          /\ dial' = [dial EXCEPT ![d] = "returned"]
       \/ dial' = [dial EXCEPT ![d] = "failed"]
    /\ UNCHANGED <<cfg, built, client, raw, closed>>

\* The caller closes the connection DialConn returned; closing the TLS
\* connection closes the underlying one.
CloseConn(d) ==
    /\ dial[d] = "returned"
    /\ raw[d] = "open"
    /\ raw' = [raw EXCEPT ![d] = "closed"]
    /\ UNCHANGED <<cfg, built, client, dial, closed>>

\* Client.Close: the key logger is never set by NewClient, so it closes the
\* underlying client only, not the connections it dialled.
Close ==
    /\ built = "client"
    /\ ~closed
    /\ closed' = TRUE
    /\ UNCHANGED <<cfg, built, client, dial, raw>>

Next ==
    \/ NewClient
    \/ \E d \in Dials : UnderlayDial(d) \/ Handshake(d) \/ CloseConn(d)
    \/ Close

Spec == Init /\ [][Next]_vars

-----------------------------------------------------------------------------
(* Properties.                                                             *)

\* A DialConn that fails leaves no connection of its own open.  On an
\* error it returns nil, so its caller holds nothing to close, and the
\* underlying connection it dialled for a failed handshake can only be
\* closed by DialConn itself.
HandshakeFailureCloses ==
    \A d \in Dials : dial[d] = "failed" => raw[d] # "open"

=============================================================================
