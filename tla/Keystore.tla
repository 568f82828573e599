------------------------------ MODULE Keystore ------------------------------
(***************************************************************************)
(* The encrypted keystore file of wallet/wallet.py and the tensorpow-wallet*)
(* commands that write and read it.  A command checks that the file is not *)
(* there, derives the key, opens the file for writing, which empties it,   *)
(* and writes the whole document, which is shorter than the write buffer,  *)
(* at once.  Commands run concurrently and can be killed between any two   *)
(* of these steps.                                                         *)
(***************************************************************************)
EXTENDS Integers, FiniteSets

CONSTANTS
    Commands,    \* concurrent tensorpow-wallet processes
    Seeds,       \* private seeds
    Passwords    \* passwords, the empty one not among them

VARIABLES
    keyFile,  \* NoFile, Torn, or the document: the seed and its password
    command,  \* what each process is doing
    saved,    \* the documents whose command reported success
    loaded    \* what load_keystore returned: the seed, and the password given

keystoreVars == <<keyFile, command, saved, loaded>>

NoFile == <<>>
Torn == <<"torn">>
Document(seed, password) == <<"doc", seed, password>>
NotRunning == [pc |-> "none"]

KeystoreInit ==
    /\ keyFile = NoFile
    /\ command = [c \in Commands |-> NotRunning]
    /\ saved = {} /\ loaded = {}

\* save_keystore up to the key derivation: an existing file is refused without --overwrite.
CheckAbsent(c, seed, password, overwrite) ==
    /\ command[c].pc = "none"
    /\ keyFile = NoFile \/ overwrite
    /\ command' = [command EXCEPT ![c] = [pc |-> "open", seed |-> seed, password |-> password]]
    /\ UNCHANGED <<keyFile, saved, loaded>>

\* write_text opens the file, which truncates it,
OpenFile(c) ==
    /\ command[c].pc = "open"
    /\ keyFile' = Torn
    /\ command' = [command EXCEPT ![c].pc = "write"]
    /\ UNCHANGED <<saved, loaded>>

\* and writes the document; documents have one length, so the last writer's stands.
WriteFile(c) ==
    /\ command[c].pc = "write"
    /\ keyFile' = Document(command[c].seed, command[c].password)
    /\ saved' = saved \cup {keyFile'}
    /\ command' = [command EXCEPT ![c] = NotRunning]
    /\ UNCHANGED loaded

\* The process is killed.
Kill(c) ==
    /\ command[c].pc # "none"
    /\ command' = [command EXCEPT ![c] = NotRunning]
    /\ UNCHANGED <<keyFile, saved, loaded>>

\* Faulty: the tag is not checked.
OpensUnauthenticated(document, password) == document \notin {NoFile, Torn}

\* load_keystore's checks: the JSON, then the authentication tag under the key
\* derived from the password, then the seed against the public metadata.
Opens(document, password) == document \notin {NoFile, Torn} /\ document[3] = password

\* address, balance, send and export begin with load_wallet.
LoadKeystore(password) ==
    /\ Opens(keyFile, password)
    /\ loaded' = loaded \cup {[seed |-> keyFile[2], password |-> password]}
    /\ UNCHANGED <<keyFile, command, saved>>

KeystoreNext ==
    \/ \E c \in Commands, seed \in Seeds, password \in Passwords, overwrite \in BOOLEAN :
         CheckAbsent(c, seed, password, overwrite)
    \/ \E c \in Commands : OpenFile(c) \/ WriteFile(c) \/ Kill(c)
    \/ \E password \in Passwords : LoadKeystore(password)

KeystoreSpec == KeystoreInit /\ [][KeystoreNext]_keystoreVars

-----------------------------------------------------------------------------
(* Properties. *)

\* A load succeeds only with a seed some command saved in full under that same
\* password: a file emptied by a killed or running writer, or written under
\* another password, is refused.
LoadedWasSaved == \A l \in loaded : Document(l.seed, l.password) \in saved
=============================================================================
