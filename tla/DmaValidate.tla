---------------------------- MODULE DmaValidate -----------------------------
(***************************************************************************)
(* dma_validate_transaction and the checks it is made of                   *)
(* (sw/device/lib/drivers/dma/dma.c): the application fills in a           *)
(* dma_trans_t, has it validated, edits it and validates it again.         *)
(*                                                                         *)
(* A flags mask is a set of flag names.  The sanity checks of the source   *)
(* (DMA_STATIC_ASSERT) are compiled to nothing, so they are left out.      *)
(***************************************************************************)
EXTENDS Integers, FiniteSets

CONSTANTS
    Trans,          \* the dma_trans_t objects of the application
    UserFields,     \* what the application may write into one
    UintSpace       \* number of values of a uint32_t or a pointer: 2^32

(* A target without environment (its pointer is null).                     *)
NoEnv == [ start |-> -1, end |-> -1 ]

(* dma_data_type_t, dma_dim_t and the values of the other enumerations.    *)
WORD == 0
HALF_WORD == 1
BYTE == 2
Dim1D == 0
Dim2D == 1
TransModes == {"SINGLE", "CIRCULAR", "ADDRESS"}
EndEvents == {"POLLING", "INTR", "INTR_WAIT"}

ConfigFlags == { "SRC", "DST", "MISALIGN", "DISCONTINUOUS", "OUTBOUNDS",
                 "INCOMPATIBLE", "WINDOW_SIZE", "CRITICAL_ERROR" }

Environments == [ start : 0 .. UintSpace - 1, end : 0 .. UintSpace - 1 ]

TargetFieldNames == {"env", "ptr", "inc_d1_du", "inc_d2_du", "type", "trig"}

TargetOK(g) ==
    /\ DOMAIN g = TargetFieldNames
    /\ g.env = NoEnv \/ g.env \in Environments
    /\ g.ptr \in 0 .. UintSpace - 1
    /\ g.inc_d1_du \in Nat /\ g.inc_d2_du \in Nat
    /\ g.type \in {WORD, HALF_WORD, BYTE}
    /\ g.trig \in {"MEMORY", "SLOT"}

UserFieldNames ==
    { "src", "dst", "src_addr", "size_d1_du", "size_d2_du", "dim",
      "pad_top_du", "pad_bottom_du", "pad_left_du", "pad_right_du", "mode", "win_du",
      "end", "channel" }

UserOK(u) ==
    /\ DOMAIN u = UserFieldNames
    /\ TargetOK(u.src) /\ TargetOK(u.dst)
    /\ {u.size_d1_du, u.size_d2_du, u.win_du, u.channel, u.src_addr} \subseteq Nat
    /\ {u.pad_top_du, u.pad_bottom_du, u.pad_left_du, u.pad_right_du} \subseteq Nat
    /\ u.dim \in {Dim1D, Dim2D} /\ u.mode \in TransModes /\ u.end \in EndEvents

ASSUME ValidateAssumption ==
    /\ UintSpace \in Nat \ {0}
    /\ \A u \in UserFields : UserOK(u)

(* src_addr stands for the pointer of that target.  sign_ext and dim_inv   *)
(* are copied to their registers without a condition and are left out.     *)

(* The fields the driver itself fills in start as zeros: the objects are   *)
(* global or static.                                                       *)
DriverFields == [ src_type |-> WORD, dst_type |-> WORD, inc_b |-> 0, flags |-> {} ]

Struct(u, d) ==
    [ f \in UserFieldNames \cup DOMAIN DriverFields |->
        IF f \in UserFieldNames THEN u[f] ELSE d[f] ]

Critical(t) == "CRITICAL_ERROR" \in t.flags

-----------------------------------------------------------------------------
(* The helpers.  Arithmetic on uint32_t wraps.                             *)

(* DMA_DATA_TYPE_2_SIZE(type) is 0b100 >> type.                            *)
DataTypeSize(type) == 4 \div (2^type)

Flag(cond, f) == IF cond THEN {f} ELSE {}

get_misalignment_b(ptr, type) ==
    (IF type = WORD /\ ptr % 4 # 0 THEN 1 ELSE 0)
      + (IF type <= HALF_WORD /\ ptr % 2 # 0 THEN 1 ELSE 0)

Outbound(start, end, type, units) ==
    end < (start + DataTypeSize(type) * units - 1) % UintSpace

(* Mutant: the last data unit is forgotten.                                *)
is_region_outbound_1D_short(start, end, type, size_d1, inc_d1) ==
    Outbound(start, end, type, (size_d1 - 1) * inc_d1)

is_region_outbound_1D(start, end, type, size_d1, inc_d1) ==
    Outbound(start, end, type, (size_d1 - 1) * inc_d1 + 1)

is_region_outbound_2D(start, end, type, size_d1, size_d2, inc_d1, inc_d2) ==
    Outbound(start, end, type,
             ((size_d1 - 1) * inc_d1 + 1) * size_d2 + inc_d2 * (size_d2 - 1))

validate_environment(env) == Flag(env.end < env.start, "INCOMPATIBLE")

validate_target(g, t) ==
    LET outb == IF t.size_d2_du # 0
                THEN is_region_outbound_2D(g.ptr, g.env.end, g.type, t.size_d1_du,
                                           t.size_d2_du, g.inc_d1_du, g.inc_d2_du)
                ELSE is_region_outbound_1D(g.ptr, g.env.end, g.type,
                                           t.size_d1_du, g.inc_d1_du)
        envFlags == validate_environment(g.env)
                      \cup Flag(\/ outb
                                \/ g.ptr < g.env.start
                                \/ g.ptr > g.env.end, "OUTBOUNDS")
        bad == IF g.trig = "MEMORY" THEN g.inc_d1_du = 0
                                    ELSE g.env # NoEnv \/ g.inc_d1_du # 0
    IN  (IF g.env = NoEnv THEN {} ELSE envFlags) \cup Flag(bad, "INCOMPATIBLE")

(* The increments load puts into the registers: the common one when        *)
(* realignment set it, otherwise the target's own.                         *)
get_increment_b_1D(g, t) ==
    IF g.trig # "MEMORY" THEN 0
    ELSE IF t.inc_b # 0 THEN t.inc_b ELSE g.inc_d1_du * DataTypeSize(g.type)

get_increment_b_2D(g, t) ==
    IF g.trig # "MEMORY" THEN 0
    ELSE IF t.inc_b # 0 THEN t.inc_b ELSE g.inc_d2_du * DataTypeSize(g.type)

-----------------------------------------------------------------------------
(* dma_validate_transaction, as a function from the object to the object.  *)

Flagged(t, fs) == [ t EXCEPT !.flags = @ \cup fs ]
Reject(t, fs) == Flagged(t, fs \cup {"CRITICAL_ERROR"})

(* Dimensionality, padding, triggers and mode; each rejects in one way.    *)
Incompatible(t) ==
    \/ t.dim = Dim2D /\ (t.src.inc_d2_du = 0 \/ t.dst.inc_d2_du = 0)
    \/ t.dim = Dim1D /\ (t.src.inc_d2_du # 0 \/ t.dst.inc_d2_du # 0)
    \/ t.dim = Dim1D /\ (t.pad_top_du # 0 \/ t.pad_bottom_du # 0)
    \/ t.src.trig # "MEMORY" /\ t.dst.trig # "MEMORY"
    \/ t.src.trig = "MEMORY" /\ t.dst.trig = "MEMORY" /\ t.mode = "CIRCULAR"

(* Mutant: the destination type of an earlier validation is kept.          *)
CleanedKeepsType(t) == [ t EXCEPT !.flags = {}, !.inc_b = 0, !.src_type = t.src.type ]

(* The flags are emptied and the fields of the driver get their defaults.  *)
Cleaned(t) == [ t EXCEPT !.flags = {}, !.inc_b = 0,
                         !.src_type = t.src.type, !.dst_type = t.dst.type ]

srcMisalignment(t) ==
    IF t.src.trig = "MEMORY" THEN get_misalignment_b(t.src.ptr, t.src_type) ELSE 0

dstMisalignment(t) ==
    IF t.dst.trig = "MEMORY" THEN get_misalignment_b(t.dst.ptr, t.dst_type) ELSE 0

(* Mutant: only the source decides how far the type is narrowed.           *)
misalignment_src_only(t) == srcMisalignment(t)

misalignment(t) ==
    IF srcMisalignment(t) < dstMisalignment(t) THEN dstMisalignment(t)
                                               ELSE srcMisalignment(t)

Realigned(t) ==
    LET type == t.dst_type + misalignment(t)
    IN  [ t EXCEPT !.dst_type = type, !.inc_b = DataTypeSize(type) ]

(* dma_window_ratio_warning_threshold, the default.                        *)
RatioThreshold == 4

(* Sizes, destination environment and window.  The source divides by       *)
(* win_du even when it is zero; the quotient is then not used.             *)
SizeChecks(t) ==
    IF t.size_d1_du = 0 \/ (t.dim = Dim2D /\ t.size_d2_du = 0)
      THEN Reject(t, {"SRC"})
    ELSE IF /\ t.dst.env # NoEnv
            /\ is_region_outbound_1D(t.dst.ptr, t.dst.env.end, t.dst_type,
                                     t.size_d1_du, t.dst.inc_d1_du)
      THEN Reject(t, {"DST", "OUTBOUNDS"})
    ELSE IF t.win_du > t.size_d1_du
      THEN Reject(t, {"WINDOW_SIZE"})
    ELSE Flagged(t, Flag(/\ t.win_du # 0
                         /\ t.size_d1_du \div t.win_du > RatioThreshold, "WINDOW_SIZE"))

IntegrityChecks(t, realign) ==
    LET m == Flagged(t, Flag(srcMisalignment(t) # 0, "SRC")
                          \cup Flag(dstMisalignment(t) # 0, "DST")
                          \cup Flag(misalignment(t) # 0, "MISALIGN"))
    IN  IF misalignment(t) = 0 THEN SizeChecks(m)
        ELSE IF ~realign THEN Reject(m, {})
        ELSE IF t.src.inc_d1_du > 1 \/ t.dst.inc_d1_du > 1
          THEN Reject(m, {"DISCONTINUOUS"})
        ELSE SizeChecks(Realigned(m))

(* What the targets report is added to the old flags; both are called SRC. *)
TargetErrors(t) == validate_target(t.src, t) \cup validate_target(t.dst, t)

dma_validate_transaction(t, realign, check) ==
    LET errors == TargetErrors(t)
        m == Flagged(t, IF errors = {} THEN {} ELSE errors \cup {"SRC"})
    IN  IF Critical(m) THEN m
        ELSE IF check /\ Incompatible(t) THEN Reject(m, {"INCOMPATIBLE"})
        ELSE IF check THEN IntegrityChecks(Cleaned(m), realign)
        ELSE Cleaned(m)

-----------------------------------------------------------------------------
(* The application and the validation of its objects.                      *)

VARIABLES
    trans,      \* the objects
    checked     \* history: how an unedited object was last validated, and
                \* whether it had been rejected before

NotChecked == [ done |-> FALSE, realign |-> FALSE, check |-> FALSE, before |-> FALSE ]

ValidateInit ==
    /\ trans \in [ Trans -> { Struct(u, DriverFields) : u \in UserFields } ]
    /\ checked = [ x \in Trans |-> NotChecked ]

Validate(x, realign, check) ==
    /\ trans' = [ trans EXCEPT ![x] = dma_validate_transaction(@, realign, check) ]
    /\ checked' = [ checked EXCEPT ![x] =
                      [ done |-> TRUE, realign |-> realign, check |-> check,
                        before |-> Critical(trans[x]) ] ]

(* The application reuses an object: it rewrites the fields that are its   *)
(* own and leaves the ones that the driver filled in.                      *)
Reuse(x, u) ==
    /\ trans' = [ trans EXCEPT ![x] = Struct(u, @) ]
    /\ checked' = [ checked EXCEPT ![x] = NotChecked ]

ValidateNext ==
    \E x \in Trans :
        \/ \E realign, check \in BOOLEAN : Validate(x, realign, check)
        \/ \E u \in UserFields : Reuse(x, u)

ValidateSpec == ValidateInit /\ [][ValidateNext]_<< trans, checked >>

-----------------------------------------------------------------------------
(* Properties.                                                             *)

Accepted(x) == checked[x].done /\ ~Critical(trans[x])
AcceptedWithChecks(x) == Accepted(x) /\ checked[x].check

(* The width the channel writes with: the register has two bits, and both  *)
(* 2 and 3 are bytes.                                                      *)
WriteBytes(t) == LET ty == t.dst_type % 4 IN IF ty = 3 THEN 1 ELSE DataTypeSize(ty)

(* The last byte the channel writes for t, along both dimensions and with  *)
(* its padding.                                                            *)
LastByteWritten(t) ==
    LET cols == t.pad_left_du + t.size_d1_du + t.pad_right_du
        rows == IF t.dim = Dim1D THEN 1
                                 ELSE t.pad_top_du + t.size_d2_du + t.pad_bottom_du
        inc1 == get_increment_b_1D(t.dst, t)
        inc2 == get_increment_b_2D(t.dst, t)
    IN  t.dst.ptr + (rows - 1) * ((cols - 1) * inc1 + inc2)
                  + (cols - 1) * inc1 + WriteBytes(t) - 1

(* The objects keep their shape: what the application wrote is untouched   *)
(* by validation, and a data type never leaves the enumeration by more     *)
(* than the two steps of a realignment.                                    *)
ValidateTypeOK ==
    \A x \in Trans :
        LET t == trans[x]
        IN  /\ DOMAIN t = UserFieldNames \cup DOMAIN DriverFields
            /\ UserOK([ f \in UserFieldNames |-> t[f] ])
            /\ t.src_type \in WORD .. BYTE /\ t.dst_type \in WORD .. BYTE + 2
            /\ t.inc_b \in 0 .. 4 /\ t.flags \subseteq ConfigFlags

(* A transaction that passes the integrity checks never writes past the    *)
(* end of the destination's environment, whatever realignment did to its   *)
(* data type (cross-outbound check of dma_validate_transaction).           *)
AcceptedStaysInEnvironment ==
    \A x \in Trans :
        LET t == trans[x]
        IN  /\ AcceptedWithChecks(x)
            /\ t.dst.env # NoEnv /\ t.dst.trig = "MEMORY" /\ t.mode # "ADDRESS"
            => LastByteWritten(t) <= t.dst.env.end

(* A transaction that passes the integrity checks is written with a data   *)
(* type that fits the alignment of its destination, realigned or not.      *)
AcceptedIsAligned ==
    \A x \in Trans :
        AcceptedWithChecks(x) /\ trans[x].dst.trig = "MEMORY"
        => trans[x].dst.ptr % WriteBytes(trans[x]) = 0

(* What validation would leave of a zeroed object with the same fields of  *)
(* the application.                                                        *)
Fresh(x) ==
    dma_validate_transaction(Struct(trans[x], DriverFields),
                             checked[x].realign, checked[x].check)

(* A rejection outlives every correction of the object.  Of an object that *)
(* was never rejected validation forgets all: the verdict is that of a     *)
(* zeroed one, and so is all it leaves of an accepted one.                 *)
OnlyRejectionSticks ==
    \A x \in Trans :
        checked[x].done =>
            IF checked[x].before THEN Critical(trans[x])
            ELSE /\ Critical(trans[x]) <=> Critical(Fresh(x))
                 /\ Accepted(x) => trans[x] = Fresh(x)

(* dma.c:538, "The flags are cleaned in case the structure was used        *)
(* before": with the checks, the verdict is that of a zeroed object.  A    *)
(* critical error is not cleaned, since dma.c:446 returns before.          *)
FlagsAreCleaned ==
    \A x \in Trans : checked[x].check => (Critical(trans[x]) <=> Critical(Fresh(x)))

-----------------------------------------------------------------------------
(* What an application has to respect: validation does not see to it.      *)

\* No WORD is read from memory into BYTEs: at an odd address the sum of type
\* and misalignment would be 4, which the register of two bits takes for WORD.
WordsNotToBytes ==
    \A u \in UserFields :
        u.src.trig = "MEMORY" /\ u.src.type = WORD => u.dst.type # BYTE

\* A destination with an environment is one row without padding, contiguous
\* or not, of a type no narrower than the source's, in the address space.
OneRowEnvironments ==
    \A u \in UserFields :
        u.dst.env # NoEnv /\ u.dst.trig = "MEMORY" /\ u.mode # "ADDRESS" =>
            /\ u.dim = Dim1D /\ u.pad_left_du = 0 /\ u.pad_right_du = 0
            /\ u.dst.inc_d1_du > 0
            /\ u.src.trig = "MEMORY" => u.src.type >= u.dst.type
            /\ u.dst.ptr + DataTypeSize(u.dst.type) * ((u.size_d1_du - 1) * u.dst.inc_d1_du + 1)
                  <= UintSpace

=============================================================================
