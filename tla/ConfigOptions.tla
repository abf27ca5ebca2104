--------------------------- MODULE ConfigOptions ----------------------------
(***************************************************************************)
(* What the models know of the options and the files they are read from.   *)
(* An option of the custom file overrides the one of the default file,     *)
(* which is complete and never changes.                                    *)
(***************************************************************************)
EXTENDS Integers

CONSTANTS
  Options,            \* names of options
  Values, Bad, Unset, \* values of options; not a number; not in the file
  Broken, Missing,    \* a file Perl rejects; a file that cannot be read
  Users,
  MaxEdits, MaxHangups   \* bounds of the model

ASSUME ConfigAssumption ==
  /\ Values # {} /\ Bad \notin Values /\ Unset \notin Values \cup {Bad}
  /\ {MaxEdits, MaxHangups} \subseteq Nat

(* Those _parse casts to a number.                                         *)
Numeric == Options \cap
  {"WAIT_TIMEOUT", "IN_TIMEOUT", "MAX_DATA_FOR_ID", "MAX_MEM_MB", "EVENT_CHAIN_LEN",
   "IN_MAXLEN", "WAIT_MAXLEN", "CLEAN_ID_AFTER", "OFFLINE_TIMEOUT", "VERBOSITY"}

(* Those the Server objects are created with.                              *)
Opening == Options \cap {"WAIT_ADDR", "WAIT_TIMEOUT", "IN_ADDR", "IN_TIMEOUT"}

(* Those the expression lowlevel of reload matches.  No option has the     *)
(* name IN_ADDIN_TIMEOUT, and IN_ADDR and IN_TIMEOUT are not matched.      *)
LowLevel == Options \cap {"WAIT_ADDR", "WAIT_TIMEOUT", "IN_ADDIN_TIMEOUT", "SU_USER"}

Default == [o \in Options |-> CHOOSE v \in Values : TRUE]

(* To set an option to its default is to leave it unset, and for a text    *)
(* any value is as good as another.                                        *)
Customs ==
  {c \in [Options -> Values \cup {Bad, Unset}] :
     \A o \in Options : c[o] # Default[o] /\ (c[o] = Bad => o \in Numeric)}
=============================================================================
