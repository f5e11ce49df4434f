------------------------------ MODULE FieldCrypto ------------------------------
(***************************************************************************)
(* Encrypted columns (encrypt_value, decrypt_value) of one investigation   *)
(* as processes with different settings write and read them.  MODE and     *)
(* SAFENESTT_ENCRYPTION_KEY are those of the process and change only when  *)
(* another one is started; the table knows neither.                        *)
(*                                                                         *)
(*   env     the running process: the API or a script, its mode and key    *)
(*   cells   what each column holds: a text, the key it is encrypted under *)
(*           or NoKey for plaintext, and the mode it was written in        *)
(***************************************************************************)
CONSTANTS Key,
          Strong,    \* keys _is_valid_key accepts
          Usable,    \* keys Fernet accepts
          NoKey      \* not set

ASSUME KeyAssumption == Strong \subseteq Key /\ Usable \subseteq Key /\ NoKey \notin Key

VARIABLES env, cells

fieldVars == <<env, cells>>

(* A value by what json.loads makes of it: text it cannot parse, a case (an *)
(* object), a number, null.                                                 *)
Text   == {"name", "case", "number", "null"}
Column == {"target", "results"}
Mode   == {"production", "development"}
Env    == [process : {"api", "script"}, mode : Mode, key : Key \cup {NoKey}]
Cell   == [text : Text, under : Key \cup {NoKey}, mode : Mode]
Absent == [text |-> "none"]

FieldTypeOK ==
  /\ env \in Env
  /\ cells \in [Column -> Cell \cup {Absent}]

(* _get_fernet raises: in production a key that is set must be strong.      *)
Refuses(e) == e.mode = "production" /\ e.key \notin Strong \cup {NoKey}

(* The key it makes a cipher of; a key Fernet rejects is only logged.       *)
Cipher(e) == IF e.key \in Usable THEN e.key ELSE NoKey

(* is_encryption_enabled(), which raises or is false for lack of a key.     *)
Enabled(e) == ~Refuses(e) /\ Cipher(e) # NoKey

(* A mutant: the API starts with any key that is set.                       *)
MayRunWithKey(e) == e.process = "api" /\ e.mode = "production" => e.key # NoKey

(* api/app.py refuses to be imported in production without encryption.      *)
MayRun(e) == e.process = "api" /\ e.mode = "production" => Enabled(e)

(* A mutant: without a cipher, plaintext is stored in production too.       *)
MayWriteAnyway == ~Refuses(env)

(* encrypt_value: in production it raises rather than store plaintext.      *)
MayWrite == ~Refuses(env) /\ (env.mode = "production" => Cipher(env) # NoKey)

Written(text) == [text |-> text, under |-> Cipher(env), mode |-> env.mode]

(* decrypt_value raises on what is not ciphertext under its own key.        *)
MayRead(cell) == ~Refuses(env) /\ (Cipher(env) # NoKey => cell.under = Cipher(env))

(* What it returns: without a cipher the ciphertext, if it is that, as a    *)
(* string; else the text, parsed as JSON whenever that is possible.         *)
ReadBack(cell) ==
  IF cell.under # Cipher(env) THEN "ciphertext"
  ELSE CASE cell.text = "case"   -> "object"
         [] cell.text = "number" -> "int"
         [] cell.text = "null"   -> "None"
         [] OTHER                -> cell.text

FieldInit ==
  /\ env \in {e \in Env : MayRun(e)}
  /\ cells = [c \in Column |-> Absent]

(* Another process takes over, with other settings perhaps.                 *)
Restart ==
  /\ env' \in {e \in Env : MayRun(e)}
  /\ UNCHANGED cells

(* A write that raises changes nothing; columns are written once, as        *)
(* update_investigation never writes the target.                            *)
Write(column, text) ==
  /\ MayWrite
  /\ cells' = [cells EXCEPT ![column] = Written(text)]
  /\ UNCHANGED env

-----------------------------------------------------------------------------
(* What is stored in production is never plaintext, nor under a key that is *)
(* weak or that Fernet does not take, whichever processes were started and  *)
(* in whatever order (the test of encryption.py: "Plaintext is never stored *)
(* in the database" holds in production only).                              *)
ProductionCellsAreSealed ==
  \A c \in Column :
    cells[c] # Absent /\ cells[c].mode = "production" => cells[c].under \in Strong \cap Usable
=============================================================================
