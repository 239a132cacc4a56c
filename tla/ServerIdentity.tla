--------------------------- MODULE ServerIdentity ---------------------------
(***************************************************************************)
(* The certificate a server presents to its agents and the pin an agent    *)
(* keeps of it: load_or_generate of server/src/tls.rs and TofuVerifier of  *)
(* agent/src/tls.rs.  The server process may die between any two of its    *)
(* file operations.  A certificate and its key are one number; 0 stands    *)
(* for a missing file and Torn for one whose writing was interrupted.      *)
(***************************************************************************)
EXTENDS Integers

CONSTANTS
    Server,
    Installed,      \* servers that ran before, whose files are complete
    MaxCerts        \* bound on the certificates a server generates

ASSUME MaxCertsAssumption == MaxCerts \in Nat \ {0}
ASSUME InstalledAssumption == Installed \subseteq Server

Torn == -1

VARIABLES
    certFile, keyFile,  \* per server, [server].cert and [server].key
    made,               \* per server, certificates generated so far
    proc,               \* per server: "off", "certWritten", "on", "broken"
    held,               \* per server, the certificate of the process
    pin                 \* the agent's pin file of the server's name

idVars == <<certFile, keyFile, made, proc, held, pin>>

IdentityInit ==
    /\ made = [s \in Server |-> IF s \in Installed THEN 1 ELSE 0]
    /\ certFile = made /\ keyFile = made /\ held = [s \in Server |-> 0]
    /\ proc = [s \in Server |-> "off"] /\ pin = [s \in Server |-> 0]

(* Mutant: only the key is written, and the next start generates again.    *)
GenerateKeepsCert(s) ==
    /\ proc[s] = "off" /\ (certFile[s] = 0 \/ keyFile[s] = 0)
    /\ made[s] < MaxCerts
    /\ made' = [made EXCEPT ![s] = @ + 1]
    /\ held' = [held EXCEPT ![s] = made'[s]]
    /\ keyFile' = [keyFile EXCEPT ![s] = made'[s]]
    /\ proc' = [proc EXCEPT ![s] = "on"]
    /\ UNCHANGED <<certFile, pin>>

(* One of the files is missing: a new certificate, and its file is written.*)
Generate(s) ==
    /\ proc[s] = "off" /\ (certFile[s] = 0 \/ keyFile[s] = 0)
    /\ made[s] < MaxCerts
    /\ made' = [made EXCEPT ![s] = @ + 1]
    /\ held' = [held EXCEPT ![s] = made'[s]]
    /\ \/ /\ certFile' = [certFile EXCEPT ![s] = made'[s]]
          /\ proc' = [proc EXCEPT ![s] = "certWritten"]
       \/ /\ certFile' = [certFile EXCEPT ![s] = Torn]
          /\ UNCHANGED proc                             \* dies while writing
    /\ UNCHANGED <<keyFile, pin>>

(* The key file, and the process accepts agents.                           *)
WriteKey(s) ==
    /\ proc[s] = "certWritten"
    /\ \/ /\ keyFile' = [keyFile EXCEPT ![s] = held[s]]
          /\ proc' = [proc EXCEPT ![s] = "on"]
       \/ /\ keyFile' = [keyFile EXCEPT ![s] = Torn]
          /\ proc' = [proc EXCEPT ![s] = "off"]         \* dies while writing
    /\ UNCHANGED <<certFile, made, held, pin>>

(* Both files exist: they are loaded.  server_config refuses a key that    *)
(* cannot be read or is not the certificate's, and run returns the error.  *)
LoadIdentity(s) ==
    /\ proc[s] = "off" /\ certFile[s] # 0 /\ keyFile[s] # 0
    /\ IF certFile[s] = keyFile[s] /\ certFile[s] # Torn
       THEN held' = [held EXCEPT ![s] = certFile[s]] /\ proc' = [proc EXCEPT ![s] = "on"]
       ELSE proc' = [proc EXCEPT ![s] = "broken"] /\ UNCHANGED held
    /\ UNCHANGED <<certFile, keyFile, made, pin>>

(* The process dies, or is stopped.                                        *)
Die(s) ==
    /\ proc[s] \in {"certWritten", "on"}
    /\ proc' = [proc EXCEPT ![s] = "off"]
    /\ held' = [held EXCEPT ![s] = 0]
    /\ UNCHANGED <<certFile, keyFile, made, pin>>

(* verify_server_cert: the first certificate is pinned (written beside and *)
(* renamed), later ones are compared.                                      *)
Trusted(s) == pin[s] \in {0, held[s]}
Verify(s) ==
    /\ pin' = [pin EXCEPT ![s] = IF @ = 0 THEN held[s] ELSE @]
    /\ UNCHANGED <<certFile, keyFile, made, proc, held>>

-----------------------------------------------------------------------------
(* Properties                                                              *)

(* A server an agent has pinned keeps its identity: however often its      *)
(* process dies, also between the writing of the two files, the            *)
(* certificate it presents next is the pinned one, so that no agent is     *)
(* locked out by a restart.                                                *)
PinnedIsServed == \A s \in Server : proc[s] = "on" /\ pin[s] # 0 => held[s] = pin[s]
=============================================================================
