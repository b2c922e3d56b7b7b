---------------------------- MODULE DmaHal_proofs ----------------------------
(***************************************************************************)
(* Proofs about the DMA driver.  First dma_validate_transaction, for all   *)
(* objects an application may fill in and every size of the address space; *)
(* then load, launch and the interrupts, for any number of channels and    *)
(* any application whose objects fit the registers.                        *)
(***************************************************************************)
EXTENDS DmaHal, TLAPS

-----------------------------------------------------------------------------
(* Validation: what it leaves of an object.                                *)


AllFields == UserFieldNames \cup {"src_type", "dst_type", "inc_b", "flags"}

\* An object, and one with the same fields of the application.
IsObject(t) == t = [f \in AllFields |-> t[f]]
Keeps(t, s) == IsObject(s) /\ \A f \in UserFieldNames : s[f] = t[f]

\* The objects are what the application wrote and what the driver added.
ObjectsInv ==
    /\ trans = [x \in Trans |-> trans[x]]
    /\ \A x \in Trans : \E u \in UserFields : Keeps(u, trans[x])

(* Flags are added, nothing else changes.                                  *)
LEMMA FlaggedIs ==
    ASSUME NEW t, IsObject(t), NEW fs
    PROVE  /\ Keeps(t, Flagged(t, fs)) /\ Flagged(t, fs).flags = t.flags \cup fs
           /\ Flagged(t, fs).src_type = t.src_type /\ Flagged(t, fs).dst_type = t.dst_type
           /\ Flagged(t, fs).inc_b = t.inc_b
BY DEF Flagged, IsObject, Keeps, AllFields, UserFieldNames

(* A rejection only adds a critical error to the flags.                    *)
LEMMA RejectIs ==
    ASSUME NEW t, IsObject(t), NEW fs
    PROVE  Keeps(t, Reject(t, fs)) /\ Critical(Reject(t, fs))
BY FlaggedIs DEF Reject, Critical

(* Cleaning leaves a function of the application's fields.                 *)
LEMMA CleanedIs ==
    ASSUME NEW t, IsObject(t)
    PROVE  /\ Keeps(t, Cleaned(t)) /\ Cleaned(t).flags = {} /\ Cleaned(t).inc_b = 0
           /\ Cleaned(t).src_type = t.src.type /\ Cleaned(t).dst_type = t.dst.type
BY DEF Cleaned, IsObject, Keeps, AllFields, UserFieldNames

(* Objects with the same fields of the application are cleaned alike.      *)
LEMMA CleanedSame ==
    ASSUME NEW t, IsObject(t), NEW s, Keeps(t, s)
    PROVE  Cleaned(s) = Cleaned(t)
<1>1. /\ IsObject(s) /\ s.src = t.src /\ s.dst = t.dst
      /\ \A f \in UserFieldNames : s[f] = t[f]
  BY DEF Keeps, UserFieldNames
<1>3. /\ Cleaned(s).flags = Cleaned(t).flags /\ Cleaned(s).inc_b = Cleaned(t).inc_b
      /\ Cleaned(s).src_type = Cleaned(t).src_type
      /\ Cleaned(s).dst_type = Cleaned(t).dst_type
  BY <1>1, CleanedIs
<1>4. \A f \in UserFieldNames : Cleaned(s)[f] = Cleaned(t)[f]
  BY <1>1, CleanedIs DEF Keeps
<1>2. IsObject(Cleaned(s)) /\ IsObject(Cleaned(t))
  BY CleanedIs DEF Keeps
<1> QED BY <1>2, <1>3, <1>4 DEF IsObject, AllFields

(* Realigning only changes the two types and the increment in bytes.       *)
LEMMA RealignedIs ==
    ASSUME NEW t, IsObject(t)
    PROVE  /\ Keeps(t, Realigned(t)) /\ Realigned(t).flags = t.flags
           /\ Realigned(t).dst_type = t.dst_type + misalignment(t)
           /\ Realigned(t).inc_b = DataTypeSize(t.dst_type + misalignment(t))
BY DEF Realigned, IsObject, Keeps, AllFields, UserFieldNames

(* The C struct of an object has the driver's fields it is given.          *)
LEMMA StructIs ==
    ASSUME NEW u, NEW d
    PROVE  Keeps(u, Struct(u, d))
BY DEF Struct, Keeps, IsObject, AllFields, UserFieldNames, DriverFields

(* A validation keeps the fields of the application.                       *)
LEMMA SizeChecksKeep ==
    ASSUME NEW t, IsObject(t)
    PROVE  /\ Keeps(t, SizeChecks(t))
           /\ ~Critical(SizeChecks(t)) =>
                 /\ SizeChecks(t).dst_type = t.dst_type /\ SizeChecks(t).inc_b = t.inc_b
                 /\ t.size_d1_du # 0
                 /\ t.dst.env # NoEnv =>
                      ~is_region_outbound_1D(t.dst.ptr, t.dst.env.end, t.dst_type,
                                             t.size_d1_du, t.dst.inc_d1_du)
BY FlaggedIs, RejectIs DEF SizeChecks

(* The integrity checks keep the fields of the application, too.           *)
LEMMA IntegrityKeeps ==
    ASSUME NEW t, IsObject(t), NEW realign
    PROVE  Keeps(t, IntegrityChecks(t, realign))
<1> DEFINE m == Flagged(t, Flag(srcMisalignment(t) # 0, "SRC")
                          \cup Flag(dstMisalignment(t) # 0, "DST")
                          \cup Flag(misalignment(t) # 0, "MISALIGN"))
<1>1. Keeps(t, m)
  BY FlaggedIs
<1> HIDE DEF m
<1>2. IsObject(m) /\ IsObject(Realigned(m)) /\ Keeps(m, Realigned(m))
  BY <1>1, RealignedIs DEF Keeps
<1>3. Keeps(m, SizeChecks(m)) /\ Keeps(Realigned(m), SizeChecks(Realigned(m)))
  BY <1>2, SizeChecksKeep
<1>4. \A fs : Keeps(m, Reject(m, fs))
  BY <1>2, RejectIs
<1>5. IntegrityChecks(t, realign)
        \in {SizeChecks(m), Reject(m, {}), Reject(m, {"DISCONTINUOUS"}), SizeChecks(Realigned(m))}
  BY DEF IntegrityChecks, m
<1> QED BY <1>1, <1>2, <1>3, <1>4, <1>5 DEF Keeps

(* What the targets report depends on the application's fields only.       *)
LEMMA TargetErrorsSame ==
    ASSUME NEW t, NEW s, Keeps(t, s)
    PROVE  /\ TargetErrors(s) = TargetErrors(t)
           /\ Incompatible(s) <=> Incompatible(t)
           /\ "CRITICAL_ERROR" \notin TargetErrors(t)
<1>1. /\ s.src = t.src /\ s.dst = t.dst /\ s.size_d1_du = t.size_d1_du
      /\ s.size_d2_du = t.size_d2_du /\ s.dim = t.dim /\ s.mode = t.mode
      /\ s.pad_top_du = t.pad_top_du /\ s.pad_bottom_du = t.pad_bottom_du
  BY DEF Keeps, UserFieldNames
<1>2. \A g : validate_target(g, s) = validate_target(g, t)
  BY <1>1 DEF validate_target
<1>3. \A g : "CRITICAL_ERROR" \notin validate_target(g, t)
  BY DEF validate_target, validate_environment, Flag
<1> QED BY <1>1, <1>2, <1>3 DEF TargetErrors, Incompatible

(* An accepted object is the result of the checks on its cleaned fields.   *)
LEMMA ValidateIs ==
    ASSUME NEW t, IsObject(t), NEW realign, NEW check
    PROVE  /\ Keeps(t, dma_validate_transaction(t, realign, check))
           /\ \/ Critical(dma_validate_transaction(t, realign, check))
              \/ /\ ~(check /\ Incompatible(t))
                 /\ dma_validate_transaction(t, realign, check)
                      = IF check THEN IntegrityChecks(Cleaned(t), realign) ELSE Cleaned(t)
<1> DEFINE errors == TargetErrors(t)
           m == Flagged(t, IF errors = {} THEN {} ELSE errors \cup {"SRC"})
           r == dma_validate_transaction(t, realign, check)
           bad == Incompatible(t)
<1>1. r = IF Critical(m) THEN m
          ELSE IF check /\ bad THEN Reject(m, {"INCOMPATIBLE"})
          ELSE IF check THEN IntegrityChecks(Cleaned(m), realign)
          ELSE Cleaned(m)
  BY DEF dma_validate_transaction
<1>2. Keeps(t, m)
  BY FlaggedIs
<1> HIDE DEF errors, m, r, bad
<1>3. IsObject(m) /\ Cleaned(m) = Cleaned(t)
  BY <1>2, CleanedSame DEF Keeps
<1>4. /\ Keeps(t, Cleaned(t)) /\ Keeps(Cleaned(t), IntegrityChecks(Cleaned(t), realign))
  BY CleanedIs, IntegrityKeeps DEF Keeps
<1>5. Keeps(m, Reject(m, {"INCOMPATIBLE"})) /\ Critical(Reject(m, {"INCOMPATIBLE"}))
  BY <1>3, RejectIs
<1>6. CASE Critical(m)
  BY <1>1, <1>2, <1>6 DEF r
<1>7. CASE ~Critical(m) /\ check /\ bad
  BY <1>1, <1>2, <1>5, <1>7 DEF r, Keeps
<1>8. CASE ~Critical(m) /\ ~(check /\ bad)
  <2>1. r = IF check THEN IntegrityChecks(Cleaned(t), realign) ELSE Cleaned(t)
    BY <1>1, <1>3, <1>8
  <2>2. Keeps(t, r)
    BY <1>4, <2>1 DEF Keeps
  <2> QED BY <1>8, <2>1, <2>2 DEF r, bad
<1> QED BY <1>6, <1>7, <1>8

(* A rejected object stays rejected; any other one is judged as a zeroed    *)
(* object with the same fields, and becomes what that would have become.   *)
LEMMA ValidateFresh ==
    ASSUME NEW t, IsObject(t), NEW realign, NEW check,
           NEW s, s = dma_validate_transaction(t, realign, check),
           NEW f, f = dma_validate_transaction(Struct(s, DriverFields), realign, check)
    PROVE  IF Critical(t) THEN Critical(s)
           ELSE (Critical(s) <=> Critical(f)) /\ (~Critical(s) => s = f)
<1> DEFINE z == Struct(s, DriverFields)
           errors == TargetErrors(z)
           m == Flagged(z, IF errors = {} THEN {} ELSE errors \cup {"SRC"})
           terrors == TargetErrors(t)
           n == Flagged(t, IF terrors = {} THEN {} ELSE terrors \cup {"SRC"})
           bad == Incompatible(t)
           rest == IF check THEN IntegrityChecks(Cleaned(t), realign) ELSE Cleaned(t)
<1>1. Keeps(s, z) /\ z.flags = {}
  BY StructIs DEF Struct, DriverFields, UserFieldNames
<1>2. Keeps(t, s)
  BY ValidateIs
<1>3. /\ f = IF Critical(m) THEN m
             ELSE IF check /\ Incompatible(z) THEN Reject(m, {"INCOMPATIBLE"})
             ELSE IF check THEN IntegrityChecks(Cleaned(m), realign)
             ELSE Cleaned(m)
      /\ s = IF Critical(n) THEN n
             ELSE IF check /\ bad THEN Reject(n, {"INCOMPATIBLE"})
             ELSE IF check THEN IntegrityChecks(Cleaned(n), realign)
             ELSE Cleaned(n)
  BY DEF dma_validate_transaction
<1> HIDE DEF z
<1>4. Keeps(t, z) /\ IsObject(z) /\ Keeps(t, t)
  BY <1>1, <1>2 DEF Keeps
<1>5. /\ Keeps(z, m) /\ m.flags = z.flags \cup (IF errors = {} THEN {} ELSE errors \cup {"SRC"})
      /\ Keeps(t, n) /\ n.flags = t.flags \cup (IF terrors = {} THEN {} ELSE terrors \cup {"SRC"})
  BY <1>4, FlaggedIs
<1>6. /\ "CRITICAL_ERROR" \notin errors /\ "CRITICAL_ERROR" \notin terrors
      /\ Incompatible(z) <=> bad
  BY <1>4, TargetErrorsSame
<1> HIDE DEF errors, m, terrors, n, bad
<1>7. ~Critical(m) /\ (Critical(n) <=> Critical(t))
  BY <1>1, <1>5, <1>6 DEF Critical
<1>8. Cleaned(m) = Cleaned(t) /\ Cleaned(n) = Cleaned(t)
  <2>1. Keeps(t, m)
    BY <1>4, <1>5 DEF Keeps
  <2> QED BY <1>5, <2>1, CleanedSame
<1>9. \A w : Critical(Reject(m, w)) /\ Critical(Reject(n, w))
  BY <1>4, <1>5, RejectIs DEF Keeps
<1>10. CASE Critical(t)
  BY <1>3, <1>7, <1>10
<1>11. CASE ~Critical(t) /\ check /\ bad
  BY <1>3, <1>6, <1>7, <1>9, <1>11
<1>12. CASE ~Critical(t) /\ ~(check /\ bad)
  <2>1. s = rest /\ f = rest
    BY <1>3, <1>6, <1>7, <1>8, <1>12
  <2> HIDE DEF rest
  <2> QED BY <1>12, <2>1
<1> QED BY <1>10, <1>11, <1>12

-----------------------------------------------------------------------------
(* The types and increments of an accepted object                          *)

\* What the integrity checks leave of a cleaned object they accept.
CheckedAs(t, s) ==
    /\ \/ misalignment(t) = 0 /\ s.inc_b = 0
       \/ /\ misalignment(t) # 0 /\ s.inc_b = DataTypeSize(s.dst_type)
          /\ ~(t.src.inc_d1_du > 1) /\ ~(t.dst.inc_d1_du > 1)
    /\ s.dst_type = t.dst_type + misalignment(t)
    /\ t.size_d1_du # 0
    /\ t.dst.env # NoEnv =>
          ~is_region_outbound_1D(t.dst.ptr, t.dst.env.end, s.dst_type,
                                 t.size_d1_du, t.dst.inc_d1_du)

(* The misalignment depends on the application's fields only.              *)
LEMMA MisalignmentSame ==
    ASSUME NEW t, IsObject(t), NEW s, Keeps(t, s),
           s.src_type = t.src_type, s.dst_type = t.dst_type
    PROVE  misalignment(s) = misalignment(t)
<1>1. s.src = t.src /\ s.dst = t.dst
  BY DEF Keeps, UserFieldNames
<1> QED BY <1>1 DEF misalignment, srcMisalignment, dstMisalignment

(* How far a data type has to be narrowed for a pointer.                   *)
LEMMA MisalignmentIs ==
    ASSUME NEW ptr \in Nat, NEW type \in {WORD, HALF_WORD, BYTE}
    PROVE  /\ get_misalignment_b(ptr, type) \in 0 .. 2 - type
           /\ \A k \in 0 .. 2 - type :
                 k >= get_misalignment_b(ptr, type) => ptr % DataTypeSize(type + k) = 0
<1>1. DataTypeSize(0) = 4 /\ DataTypeSize(1) = 2 /\ DataTypeSize(2) = 1
  BY DEF DataTypeSize
<1>2. CASE type = WORD
  <2>1. /\ get_misalignment_b(ptr, type) \in 0 .. 2
        /\ get_misalignment_b(ptr, type) = 0 => ptr % 4 = 0
        /\ get_misalignment_b(ptr, type) <= 1 => ptr % 2 = 0
    BY <1>2 DEF get_misalignment_b, WORD, HALF_WORD
  <2>2. ptr % 1 = 0
    OBVIOUS
  <2>3. \A k \in 0 .. 2 : k = 0 \/ k = 1 \/ k = 2
    OBVIOUS
  <2> QED BY <1>1, <1>2, <2>1, <2>2, <2>3 DEF WORD
<1>3. CASE type = HALF_WORD
  <2>1. /\ get_misalignment_b(ptr, type) \in 0 .. 1
        /\ get_misalignment_b(ptr, type) = 0 => ptr % 2 = 0
    BY <1>3 DEF get_misalignment_b, WORD, HALF_WORD
  <2>2. ptr % 1 = 0
    OBVIOUS
  <2>3. \A k \in 0 .. 1 : k = 0 \/ k = 1
    OBVIOUS
  <2> QED BY <1>1, <1>3, <2>1, <2>2, <2>3 DEF HALF_WORD
<1>4. CASE type = BYTE
  <2>1. get_misalignment_b(ptr, type) = 0
    BY <1>4 DEF get_misalignment_b, WORD, HALF_WORD, BYTE
  <2>2. ptr % 1 = 0
    OBVIOUS
  <2> QED BY <1>1, <1>4, <2>1, <2>2 DEF BYTE
<1> QED BY <1>2, <1>3, <1>4

(* What the integrity checks leave of a cleaned object they accept.        *)
LEMMA IntegrityAccepts ==
    ASSUME NEW t, IsObject(t), t.inc_b = 0, NEW realign,
           t.dst_type \in Nat, misalignment(t) \in Nat,
           ~Critical(IntegrityChecks(t, realign))
    PROVE  CheckedAs(t, IntegrityChecks(t, realign))
<1> DEFINE m == Flagged(t, Flag(srcMisalignment(t) # 0, "SRC")
                          \cup Flag(dstMisalignment(t) # 0, "DST")
                          \cup Flag(misalignment(t) # 0, "MISALIGN"))
           s == IntegrityChecks(t, realign)
<1>1. /\ Keeps(t, m) /\ m.src_type = t.src_type /\ m.dst_type = t.dst_type /\ m.inc_b = 0
  BY FlaggedIs
<1>2. s = IF misalignment(t) = 0 THEN SizeChecks(m)
          ELSE IF ~realign THEN Reject(m, {})
          ELSE IF t.src.inc_d1_du > 1 \/ t.dst.inc_d1_du > 1
            THEN Reject(m, {"DISCONTINUOUS"})
          ELSE SizeChecks(Realigned(m))
  BY DEF IntegrityChecks
<1> HIDE DEF m, s
<1>3. IsObject(m) /\ misalignment(m) = misalignment(t)
  BY <1>1, MisalignmentSame DEF Keeps
<1>4. /\ m.src = t.src /\ m.dst = t.dst /\ m.size_d1_du = t.size_d1_du
  BY <1>1 DEF Keeps, UserFieldNames
<1>5. CASE misalignment(t) = 0
  <2>1. s = SizeChecks(m) /\ ~Critical(SizeChecks(m))
    BY <1>2, <1>5 DEF s
  <2> QED BY <1>1, <1>3, <1>4, <1>5, <2>1, SizeChecksKeep DEF CheckedAs, s
<1>6. CASE misalignment(t) # 0
  <2> DEFINE r == Realigned(m)
  <2>1. /\ Keeps(m, r) /\ r.dst_type = t.dst_type + misalignment(t)
        /\ r.inc_b = DataTypeSize(r.dst_type)
    BY <1>1, <1>3, RealignedIs
  <2> HIDE DEF r
  <2>2. /\ IsObject(r) /\ r.dst = t.dst /\ r.size_d1_du = t.size_d1_du
    BY <1>4, <2>1 DEF Keeps, UserFieldNames
  <2>3. Critical(Reject(m, {})) /\ Critical(Reject(m, {"DISCONTINUOUS"}))
    BY <1>3, RejectIs
  <2>4. /\ s = SizeChecks(r) /\ ~Critical(SizeChecks(r))
        /\ ~(t.src.inc_d1_du > 1 \/ t.dst.inc_d1_du > 1)
    BY <1>2, <1>6, <2>3 DEF s, r
  <2> QED BY <1>6, <2>1, <2>2, <2>4, SizeChecksKeep DEF CheckedAs, s
<1> QED BY <1>5, <1>6

(* The misalignment of an object the application filled in.                *)
LEMMA UserMisalignment ==
    ASSUME NEW u \in UserFields, NEW t, Keeps(u, t),
           t.src_type = u.src.type, t.dst_type = u.dst.type
    PROVE  /\ t.src = u.src /\ t.dst = u.dst
           /\ u.dst.type \in {WORD, HALF_WORD, BYTE} /\ u.dst.ptr \in Nat
           /\ misalignment(t) \in 0 .. 2
           /\ u.src.trig = "MEMORY" => u.src.type \in {WORD, HALF_WORD, BYTE}
           /\ \/ u.dst.type + misalignment(t) <= 2
              \/ u.src.trig = "MEMORY" /\ misalignment(t) <= 2 - u.src.type
           /\ u.dst.trig = "MEMORY" /\ u.dst.type + misalignment(t) <= 2
                => u.dst.ptr % DataTypeSize(u.dst.type + misalignment(t)) = 0
<1>1. t.src = u.src /\ t.dst = u.dst
  BY DEF Keeps, UserFieldNames
<1>2. TargetOK(u.src) /\ TargetOK(u.dst)
  BY ValidateAssumption DEF UserOK
<1>3. /\ u.src.type \in {WORD, HALF_WORD, BYTE} /\ u.src.ptr \in Nat
      /\ u.dst.type \in {WORD, HALF_WORD, BYTE} /\ u.dst.ptr \in Nat
  BY <1>2, ValidateAssumption DEF TargetOK
<1>4. /\ srcMisalignment(t) \in 0 .. 2 - u.src.type
      /\ u.src.trig # "MEMORY" => srcMisalignment(t) = 0
  BY <1>1, <1>3, MisalignmentIs DEF srcMisalignment, WORD, HALF_WORD, BYTE
<1>5. /\ dstMisalignment(t) \in 0 .. 2 - u.dst.type
      /\ u.dst.trig = "MEMORY" => dstMisalignment(t) = get_misalignment_b(u.dst.ptr, u.dst.type)
  BY <1>1, <1>3, MisalignmentIs DEF dstMisalignment, WORD, HALF_WORD, BYTE
<1>6. /\ misalignment(t) = srcMisalignment(t) \/ misalignment(t) = dstMisalignment(t)
      /\ misalignment(t) >= dstMisalignment(t)
      /\ misalignment(t) > dstMisalignment(t) => misalignment(t) = srcMisalignment(t)
  BY <1>3, <1>4, <1>5 DEF misalignment, WORD, HALF_WORD, BYTE
<1>7. misalignment(t) \in 0 .. 2
  BY <1>3, <1>4, <1>5, <1>6 DEF WORD, HALF_WORD, BYTE
<1>8. \/ u.dst.type + misalignment(t) <= 2
      \/ u.src.trig = "MEMORY" /\ misalignment(t) <= 2 - u.src.type
  BY <1>3, <1>4, <1>5, <1>6 DEF WORD, HALF_WORD, BYTE
<1>9. u.dst.trig = "MEMORY" /\ u.dst.type + misalignment(t) <= 2
        => u.dst.ptr % DataTypeSize(u.dst.type + misalignment(t)) = 0
  <2>1. u.dst.type + misalignment(t) <= 2 => misalignment(t) \in 0 .. 2 - u.dst.type
    BY <1>3, <1>7 DEF WORD, HALF_WORD, BYTE
  <2> QED BY <1>3, <1>5, <1>6, <2>1, MisalignmentIs
<1> QED BY <1>1, <1>3, <1>7, <1>8, <1>9

\* What the two properties say of one object.
Aligned(t) == t.dst.trig = "MEMORY" => t.dst.ptr % WriteBytes(t) = 0

InEnvironment(t) ==
    t.dst.env # NoEnv /\ t.dst.trig = "MEMORY" /\ t.mode # "ADDRESS"
        => LastByteWritten(t) <= t.dst.env.end

(* The width written is the one of the type, up to 3, the other BYTE.      *)
LEMMA WidthIs ==
    ASSUME NEW s, s.dst_type \in 0 .. 3
    PROVE  /\ s.dst_type = 0 => WriteBytes(s) = 4 /\ DataTypeSize(s.dst_type) = 4
           /\ s.dst_type = 1 => WriteBytes(s) = 2 /\ DataTypeSize(s.dst_type) = 2
           /\ s.dst_type = 2 => WriteBytes(s) = 1 /\ DataTypeSize(s.dst_type) = 1
           /\ s.dst_type = 3 => WriteBytes(s) = 1
<1>1. DataTypeSize(0) = 4 /\ DataTypeSize(1) = 2 /\ DataTypeSize(2) = 1
  BY DEF DataTypeSize
<1>2. s.dst_type % 4 = s.dst_type
  OBVIOUS
<1> QED BY <1>1, <1>2 DEF WriteBytes

(* An accepted object writes at a multiple of the width it writes.         *)
LEMMA AlignedAccepted ==
    ASSUME WordsNotToBytes, NEW u \in UserFields, NEW t, Keeps(u, t),
           t.src_type = u.src.type, t.dst_type = u.dst.type,
           NEW s, Keeps(u, s), CheckedAs(t, s)
    PROVE  Aligned(s)
<1> SUFFICES ASSUME u.dst.trig = "MEMORY" PROVE s.dst.ptr % WriteBytes(s) = 0
  BY DEF Aligned, Keeps, UserFieldNames
<1>1. s.dst = u.dst /\ s.dst_type = u.dst.type + misalignment(t)
  BY DEF Keeps, UserFieldNames, CheckedAs
<1>2. u.dst.type + misalignment(t) \in 0 .. 3
  BY UserMisalignment DEF WordsNotToBytes, WORD, HALF_WORD, BYTE
<1>3. CASE s.dst_type <= 2
  <2>1. WriteBytes(s) = DataTypeSize(s.dst_type)
    BY <1>1, <1>2, <1>3, WidthIs
  <2> QED BY <1>1, <1>3, <2>1, UserMisalignment
<1>4. CASE s.dst_type = 3
  <2>1. WriteBytes(s) = 1 /\ s.dst.ptr \in Nat
    BY <1>1, <1>4, WidthIs, UserMisalignment
  <2> QED BY <2>1
<1> QED BY <1>1, <1>2, <1>3, <1>4

(* The last byte of the region is where the check of the destination says. *)
LEMMA EnvironmentAccepted ==
    ASSUME OneRowEnvironments, NEW u \in UserFields, NEW t, Keeps(u, t),
           t.src_type = u.src.type, t.dst_type = u.dst.type,
           NEW s, Keeps(u, s), CheckedAs(t, s)
    PROVE  InEnvironment(s)
<1>1. /\ s.dst = u.dst /\ s.mode = u.mode /\ s.dim = u.dim /\ s.size_d1_du = u.size_d1_du
      /\ s.pad_left_du = u.pad_left_du /\ s.pad_right_du = u.pad_right_du
      /\ t.dst = u.dst /\ t.size_d1_du = u.size_d1_du
  BY DEF Keeps, UserFieldNames
<1> SUFFICES ASSUME u.dst.env # NoEnv, u.dst.trig = "MEMORY", u.mode # "ADDRESS"
             PROVE  LastByteWritten(s) <= u.dst.env.end
  BY <1>1 DEF InEnvironment
<1> DEFINE n == u.size_d1_du
           i == u.dst.inc_d1_du
           ptr == u.dst.ptr
           end == u.dst.env.end
           units == (n - 1) * i
           width == DataTypeSize(s.dst_type)
           wide == DataTypeSize(u.dst.type)
           inc1 == get_increment_b_1D(s.dst, s)
           inc2 == get_increment_b_2D(s.dst, s)
<1>2. UserOK(u) /\ TargetOK(u.dst) /\ UintSpace \in Nat
  BY ValidateAssumption DEF UserOK
<1>3. n \in Nat /\ i \in Nat /\ ptr \in Nat /\ end \in Nat /\ u.dst.inc_d2_du \in Nat
  BY <1>2 DEF UserOK, TargetOK, Environments
<1>4. /\ u.dim = Dim1D /\ u.pad_left_du = 0 /\ u.pad_right_du = 0 /\ i > 0
      /\ u.src.trig = "MEMORY" => u.src.type >= u.dst.type
      /\ ptr + wide * (units + 1) <= UintSpace
  BY DEF OneRowEnvironments
<1>5. /\ s.dst_type = u.dst.type + misalignment(t) /\ misalignment(t) \in 0 .. 2
      /\ u.dst.type \in {0, 1, 2} /\ s.dst_type <= 2
  <2>1. \/ u.dst.type + misalignment(t) <= 2
        \/ u.src.trig = "MEMORY" /\ misalignment(t) <= 2 - u.src.type
    BY UserMisalignment
  <2>2. /\ u.dst.type \in {0, 1, 2} /\ misalignment(t) \in 0 .. 2
        /\ u.src.trig = "MEMORY" => u.src.type \in {0, 1, 2}
    BY UserMisalignment DEF WORD, HALF_WORD, BYTE
  <2> QED BY <1>4, <2>1, <2>2 DEF CheckedAs
<1>6. /\ n >= 1
      /\ ~(end < (ptr + width * (units + 1) - 1) % UintSpace)
      /\ misalignment(t) = 0 => s.inc_b = 0
      /\ misalignment(t) # 0 => s.inc_b = width /\ i = 1
  BY <1>1, <1>3, <1>4 DEF CheckedAs, is_region_outbound_1D, Outbound
<1>7. /\ wide \in {1, 2, 4} /\ width \in {1, 2, 4} /\ width <= wide
      /\ misalignment(t) = 0 => width = wide
      /\ WriteBytes(s) = width
  <2>1. DataTypeSize(0) = 4 /\ DataTypeSize(1) = 2 /\ DataTypeSize(2) = 1
    BY DEF DataTypeSize
  <2> QED BY <1>5, <2>1, WidthIs
<1>8. /\ inc1 = IF misalignment(t) = 0 THEN i * width ELSE width
      /\ inc2 \in Int
  <2>1. inc1 = IF s.inc_b # 0 THEN s.inc_b ELSE i * wide
    BY <1>1 DEF get_increment_b_1D
  <2>2. inc2 = IF s.inc_b # 0 THEN s.inc_b ELSE u.dst.inc_d2_du * wide
    BY <1>1 DEF get_increment_b_2D
  <2> QED BY <1>3, <1>6, <1>7, <2>1, <2>2
<1>9. LastByteWritten(s) = ptr + (1 - 1) * ((n - 1) * inc1 + inc2) + (n - 1) * inc1 + width - 1
  <2>1. 0 + n + 0 = n
    BY <1>3
  <2> QED BY <1>1, <1>4, <1>7, <2>1 DEF LastByteWritten
<1> HIDE DEF n, i, ptr, end, width, wide, inc1, inc2
<1>10. (n - 1) * inc1 = width * units /\ units \in Nat
  <2>1. n - 1 \in Nat
    BY <1>3, <1>6
  <2>2. CASE misalignment(t) = 0
    BY <1>3, <1>7, <1>8, <2>1, <2>2
  <2>3. CASE misalignment(t) # 0
    BY <1>3, <1>6, <1>7, <1>8, <2>1, <2>3
  <2> QED BY <2>2, <2>3
<1>11. inc1 \in Int
  BY <1>3, <1>7, <1>8
<1>12. LastByteWritten(s) = ptr + width * units + width - 1
  <2>1. (n - 1) * inc1 \in Int
    BY <1>3, <1>11
  <2> QED BY <1>3, <1>7, <1>8, <1>9, <1>10, <2>1
<1> HIDE DEF units
<1>13. /\ width * (units + 1) <= wide * (units + 1)
       /\ width * (units + 1) = width * units + width
       /\ width * (units + 1) \in Nat /\ wide * (units + 1) \in Nat
       /\ width * (units + 1) >= 1
  BY <1>7, <1>10
<1>14. ptr + width * (units + 1) - 1 \in 0 .. UintSpace - 1
  BY <1>2, <1>3, <1>4, <1>13
<1>15. (ptr + width * (units + 1) - 1) % UintSpace = ptr + width * (units + 1) - 1
  <2> DEFINE v == ptr + width * (units + 1) - 1
  <2> HIDE DEF v
  <2>1. v \in 0 .. UintSpace - 1
    BY <1>14 DEF v
  <2>2. v % UintSpace = v
    BY <1>2, <2>1
  <2> QED BY <2>2 DEF v
<1>16. ~(end < ptr + width * (units + 1) - 1)
  BY <1>6, <1>15
<1>17. width * units \in Nat
  BY <1>7, <1>10
<1>18. LastByteWritten(s) <= end
  <2>1. LastByteWritten(s) = ptr + width * (units + 1) - 1
    BY <1>3, <1>7, <1>12, <1>13, <1>17
  <2> QED BY <1>3, <1>14, <1>16, <2>1
<1> QED BY <1>18 DEF end

-----------------------------------------------------------------------------
(* The objects of the application keep what the last validation gave them  *)

\* An object that the checks accepted has been cleaned and checked.
AcceptedInv ==
    \A x \in Trans : AcceptedWithChecks(x) =>
        \E u \in UserFields : \E t :
            /\ Keeps(u, t) /\ Keeps(u, trans[x])
            /\ t.src_type = u.src.type /\ t.dst_type = u.dst.type
            /\ CheckedAs(t, trans[x])

\* The inductive invariant: the objects, their verdicts, what was accepted.
ValidateInv ==
    /\ ObjectsInv /\ OnlyRejectionSticks /\ AcceptedInv
    /\ checked \in [Trans -> [done : BOOLEAN, realign : BOOLEAN, check : BOOLEAN,
                             before : BOOLEAN]]

(* Validate with checks, for an object that it accepts.                    *)
LEMMA AcceptedStep ==
    ASSUME NEW u \in UserFields, NEW t, Keeps(u, t), NEW realign, NEW check, check,
           NEW s, s = dma_validate_transaction(t, realign, check), ~Critical(s)
    PROVE  \E c : /\ Keeps(u, c) /\ Keeps(u, s)
                  /\ c.src_type = u.src.type /\ c.dst_type = u.dst.type
                  /\ CheckedAs(c, s)
<1>1. IsObject(t) /\ Keeps(t, s) /\ Keeps(u, s)
  BY ValidateIs DEF Keeps
<1> DEFINE c == Cleaned(t)
<1>2. s = IntegrityChecks(c, realign)
  BY <1>1, ValidateIs
<1>3. /\ Keeps(t, c) /\ c.inc_b = 0 /\ c.src_type = t.src.type /\ c.dst_type = t.dst.type
  BY <1>1, CleanedIs
<1> HIDE DEF c
<1>4. t.src = u.src /\ t.dst = u.dst
  BY DEF Keeps, UserFieldNames
<1>5. /\ Keeps(u, c) /\ IsObject(c) /\ c.src_type = u.src.type /\ c.dst_type = u.dst.type
  BY <1>3, <1>4 DEF Keeps
<1>6. c.dst_type \in Nat /\ misalignment(c) \in Nat
  BY <1>5, UserMisalignment DEF WORD, HALF_WORD, BYTE
<1>7. CheckedAs(c, s)
  BY <1>2, <1>3, <1>5, <1>6, IntegrityAccepts
<1> QED BY <1>1, <1>5, <1>7

(* Writing a field and validating an object keep the invariant.            *)
LEMMA ValidateInvariant == ValidateSpec => []ValidateInv
<1>1. ValidateInit => ValidateInv
  BY StructIs DEF ValidateInit, ValidateInv, ObjectsInv, AcceptedInv, AcceptedWithChecks, Accepted,
     OnlyRejectionSticks, NotChecked
<1>2. ValidateInv /\ [ValidateNext]_<<trans, checked>> => ValidateInv'
  <2> SUFFICES ASSUME ValidateInv, [ValidateNext]_<<trans, checked>> PROVE ValidateInv'
    OBVIOUS
  <2>1. ASSUME NEW x \in Trans, NEW realign \in BOOLEAN, NEW check \in BOOLEAN,
               Validate(x, realign, check)
        PROVE  ValidateInv'
    <3> DEFINE s == dma_validate_transaction(trans[x], realign, check)
    <3>1. PICK u \in UserFields : Keeps(u, trans[x])
      BY DEF ValidateInv, ObjectsInv
    <3>2. /\ trans' = [trans EXCEPT ![x] = s]
          /\ checked' = [checked EXCEPT ![x] = [done |-> TRUE, realign |-> realign,
                           check |-> check, before |-> Critical(trans[x])]]
      BY <2>1 DEF Validate
    <3>3. IsObject(trans[x]) /\ Keeps(u, s)
      BY <3>1, ValidateIs DEF Keeps
    <3>4. /\ IF Critical(trans[x]) THEN Critical(s)
             ELSE LET f == dma_validate_transaction(Struct(s, DriverFields), realign, check)
                  IN  (Critical(s) <=> Critical(f)) /\ (~Critical(s) => s = f)
          /\ ~Critical(s) /\ check =>
               \E c : /\ Keeps(u, c) /\ Keeps(u, s)
                      /\ c.src_type = u.src.type /\ c.dst_type = u.dst.type
                      /\ CheckedAs(c, s)
      BY <3>1, <3>3, AcceptedStep, ValidateFresh
    <3> HIDE DEF s
    <3>5. /\ trans'[x] = s /\ \A y \in Trans \ {x} : trans'[y] = trans[y]
          /\ checked'[x].done /\ checked'[x].realign = realign /\ checked'[x].check = check
          /\ checked'[x].before = Critical(trans[x])
          /\ \A y \in Trans \ {x} : checked'[y] = checked[y]
      BY <3>2 DEF ValidateInv, ObjectsInv
    <3>6. ObjectsInv'
      BY <3>2, <3>3, <3>5 DEF ValidateInv, ObjectsInv
    <3>7. AcceptedInv'
      BY <3>4, <3>5 DEF ValidateInv, AcceptedInv, AcceptedWithChecks, Accepted
    <3>8. checked' \in [Trans -> [done : BOOLEAN, realign : BOOLEAN, check : BOOLEAN,
                                 before : BOOLEAN]]
      BY <3>2 DEF ValidateInv, Critical
    <3>9. OnlyRejectionSticks'
      BY <3>4, <3>5 DEF ValidateInv, OnlyRejectionSticks, Fresh, Accepted
    <3> QED BY <3>6, <3>7, <3>8, <3>9 DEF ValidateInv
  <2>2. ASSUME NEW x \in Trans, NEW u \in UserFields, Reuse(x, u)
        PROVE  ValidateInv'
    <3> DEFINE s == Struct(u, trans[x])
    <3>1. Keeps(u, s)
      BY StructIs
    <3>2. /\ trans' = [trans EXCEPT ![x] = s]
          /\ checked' = [checked EXCEPT ![x] = NotChecked]
      BY <2>2 DEF Reuse
    <3> HIDE DEF s
    <3> QED BY <3>1, <3>2 DEF ValidateInv, ObjectsInv, AcceptedInv, AcceptedWithChecks, Accepted,
            OnlyRejectionSticks, Fresh, NotChecked
  <2>3. CASE UNCHANGED <<trans, checked>>
    BY <2>3 DEF ValidateInv, ObjectsInv, AcceptedInv, AcceptedWithChecks, Accepted,
       OnlyRejectionSticks, Fresh
  <2> QED BY <2>1, <2>2, <2>3 DEF ValidateNext
<1> QED BY <1>1, <1>2, PTL DEF ValidateSpec

(* A rejection outlives every correction of an object; of one that was     *)
(* never rejected validation forgets all: the verdict is that of a zeroed  *)
(* object with the same fields, and so is what an accepted one becomes.    *)
THEOREM VerdictSafety == ValidateSpec => []OnlyRejectionSticks
<1>1. ValidateInv => OnlyRejectionSticks
  BY DEF ValidateInv
<1> QED BY <1>1, ValidateInvariant, PTL

(* An accepted transaction is written with a type that fits the alignment  *)
(* of its destination, realigned or not.                                   *)
THEOREM AlignmentSafety ==
    ASSUME WordsNotToBytes
    PROVE  ValidateSpec => []AcceptedIsAligned
<1>1. ValidateInv => AcceptedIsAligned
  BY AlignedAccepted DEF ValidateInv, AcceptedInv, AcceptedIsAligned, Aligned
<1> QED BY <1>1, ValidateInvariant, PTL

(* An accepted transaction writes no byte past the end of the environment  *)
(* of its destination, whatever realignment did to type and increment.     *)
THEOREM EnvironmentSafety ==
    ASSUME OneRowEnvironments
    PROVE  ValidateSpec => []AcceptedStaysInEnvironment
<1>1. ValidateInv => AcceptedStaysInEnvironment
  BY EnvironmentAccepted DEF ValidateInv, AcceptedInv, AcceptedStaysInEnvironment,
     InEnvironment
<1> QED BY <1>1, ValidateInvariant, PTL


-----------------------------------------------------------------------------
(* What the application has to respect, each at a line of the driver.      *)

\* SIZE_D1 and SIZE_D2 have 16 bits, and nothing refuses a larger size.
SizesFit == \A x \in Trans : App[x].size_d1_du < 65536 /\ App[x].size_d2_du < 65536

\* The fields of the paddings have 6 bits, those of the increments in bytes 6
\* and 23, and write_register cuts off what does not fit.
Fits(u) ==
    /\ \A g \in {u.src, u.dst} :
          /\ get_increment_b_1D(g, DriverFields) \in 0 .. INC_D1_MASK
          /\ get_increment_b_2D(g, DriverFields) \in 0 .. INC_D2_MASK
    /\ {u.pad_top_du, u.pad_bottom_du, u.pad_left_du, u.pad_right_du} \subseteq 0 .. PAD_MASK

FieldsFit == \A x \in Trans : Fits(App[x])

\* dma_stop_circular writes MODE whatever the channel is doing, and turns a
\* transfer in address mode into one to the destination pointer.
NoAddressMode == \A x \in Trans : App[x].mode # "ADDRESS"

\* Load writes the paddings of a row only when it has some, and never the ones
\* above and below: a row shares its channel with objects that leave them zero.
Framed(u) == u.pad_left_du # 0 \/ u.pad_right_du # 0
Bordered(u) == u.pad_top_du # 0 \/ u.pad_bottom_du # 0

FramesAgree ==
    \A x, y \in Trans :
        App[x].channel = App[y].channel /\ App[x].dim = Dim1D =>
            /\ ~Framed(App[x]) => ~Framed(App[y])
            /\ ~Bordered(App[y])

-----------------------------------------------------------------------------
(* The inductive invariant                                                 *)

RegNames == DOMAIN ClearedRegs

\* The object t is still what the application described in u: only the turn
\* from a padded row into a matrix of one row has changed it.
Describes(t, u) ==
    /\ IsObject(t) /\ t.inc_b = 0
    /\ DOMAIN t.src = TargetFieldNames
    /\ t.src.ptr = u.src.ptr /\ t.src.inc_d1_du = u.src.inc_d1_du
    /\ t.src.type = u.src.type /\ t.src.trig = u.src.trig
    /\ t.dst = u.dst /\ t.mode = u.mode /\ t.channel = u.channel
    /\ t.size_d1_du = u.size_d1_du
    /\ t.pad_top_du = u.pad_top_du /\ t.pad_bottom_du = u.pad_bottom_du
    /\ t.pad_left_du = u.pad_left_du /\ t.pad_right_du = u.pad_right_du
    /\ \/ /\ t.dim = u.dim /\ t.size_d2_du = u.size_d2_du
          /\ t.src.inc_d2_du = u.src.inc_d2_du
       \/ PadsRow(u) /\ t.dim = Dim2D /\ t.size_d2_du = 1

\* The registers r hold the transaction of t, but for the sizes.
LoadedWith(r, t, u) ==
    /\ r.src_ptr = u.src.ptr /\ r.dst_ptr = u.dst.ptr /\ r.dim = t.dim
    /\ PadsRow(u) => t.dim = Dim2D
    /\ r.src_inc_d1 = get_increment_b_1D(u.src, DriverFields)
    /\ r.dst_inc_d1 = get_increment_b_1D(u.dst, DriverFields)
    /\ u.dim = Dim2D => /\ r.src_inc_d2 = get_increment_b_2D(u.src, DriverFields)
                        /\ r.dst_inc_d2 = get_increment_b_2D(u.dst, DriverFields)
    /\ r.pad_top = u.pad_top_du /\ r.pad_bottom = u.pad_bottom_du
    /\ r.pad_left = u.pad_left_du /\ r.pad_right = u.pad_right_du
    /\ r.rx_trigger = u.src.trig /\ r.tx_trigger = u.dst.trig

\* The paddings no object of a channel uses have never been written.
FrameOf(r, c) ==
    /\ (\A x \in Trans : App[x].channel = c => ~Framed(App[x]))
          => r.pad_left = 0 /\ r.pad_right = 0
    /\ (\A x \in Trans : App[x].channel = c => ~Bordered(App[x]))
          => r.pad_top = 0 /\ r.pad_bottom = 0

LoadSteps == {"load_claim", "load_disable", "load_mask", "load_unmask",
              "load_enable", "load_registers"}
LaunchSteps == {"launch_flag", "launch_size"}

Objects ==
    /\ trans = [x \in Trans |-> trans[x]]
    /\ \A x \in Trans : Describes(trans[x], App[x])

Types ==
    /\ regs = [c \in Channels |-> regs[c]]
    /\ \A c \in Channels : DOMAIN regs[c] = RegNames /\ regs[c].mode # "ADDRESS"
    /\ cb \in [Channels -> [trans : Trans \cup {NULL}, intrFlag : BOOLEAN]]
    /\ hw \in [Channels -> {"READY", "RUNNING"}]
    /\ start_pending \in [Channels -> BOOLEAN]
    /\ job \in [Channels -> Trans \cup {NULL}]
    /\ \/ main = AtRest
       \/ main \in [pc : LoadSteps \cup LaunchSteps \cup {"launch_wait"}, x : Trans]

\* A call that goes on works on a channel that is ready; a launch finds the
\* registers loaded, and so does whoever finds an object loaded.
Calls ==
    /\ main.pc \in LoadSteps \cup LaunchSteps => dma_is_ready(c0)
    /\ main.pc \in LoadSteps \ {"load_claim"} => cb[c0].trans = x0
    /\ main.pc \in LaunchSteps => LoadedWith(regs[c0], trans[x0], App[x0])

LoadedOn(c) ==
    LET x == cb[c].trans
    IN  x \in Trans =>
           /\ App[x].channel = c
           /\ \/ main.pc \in LoadSteps /\ c0 = c
              \/ LoadedWith(regs[c], trans[x], App[x])

Works(c) ==
    Busy(c) => job[c] \in Trans /\ Performed(regs[c]) = Asked(App[job[c]])

HalInv ==
    /\ Objects /\ Types /\ Calls
    /\ \A c \in Channels : LoadedOn(c) /\ Works(c) /\ FrameOf(regs[c], c)

-----------------------------------------------------------------------------
(* One object and one register file                                        *)

(* The registers of a channel.                                             *)
LEMMA RegNamesAre ==
    RegNames = {"mode", "dim", "size_d1", "size_d2", "src_ptr", "dst_ptr", "addr_ptr",
                "src_inc_d1", "src_inc_d2", "dst_inc_d1", "dst_inc_d2", "pad_top",
                "pad_bottom", "pad_left", "pad_right", "window_size", "src_type",
                "dst_type", "rx_trigger", "tx_trigger"}
BY DEF RegNames, ClearedRegs

(* A validation without realignment leaves the object as described, and    *)
(* its dimension as it was.                                                *)
LEMMA ValidateDescribes ==
    ASSUME NEW t, NEW u, Describes(t, u), NEW check
    PROVE  /\ Describes(dma_validate_transaction(t, FALSE, check), u)
           /\ dma_validate_transaction(t, FALSE, check).dim = t.dim
<1> DEFINE s == dma_validate_transaction(t, FALSE, check)
<1>1. IsObject(t) /\ t.inc_b = 0
  BY DEF Describes
<1>2. Keeps(t, s)
  BY <1>1, ValidateIs
<1>3. s.inc_b = 0
  <2> DEFINE errors == TargetErrors(t)
             m == Flagged(t, IF errors = {} THEN {} ELSE errors \cup {"SRC"})
             bad == Incompatible(t)
             c == Cleaned(m)
             n == Flagged(c, Flag(srcMisalignment(c) # 0, "SRC")
                               \cup Flag(dstMisalignment(c) # 0, "DST")
                               \cup Flag(misalignment(c) # 0, "MISALIGN"))
  <2>1. s \in {m, Reject(m, {"INCOMPATIBLE"}), IntegrityChecks(c, FALSE), c}
    BY DEF dma_validate_transaction
  <2>2. IntegrityChecks(c, FALSE) \in {SizeChecks(n), Reject(n, {})}
    BY DEF IntegrityChecks
  <2>3. IsObject(m) /\ m.inc_b = 0
    BY <1>1, FlaggedIs DEF Keeps
  <2> HIDE DEF errors, m, bad
  <2>4. IsObject(c) /\ c.inc_b = 0
    BY <2>3, CleanedIs DEF Keeps
  <2> HIDE DEF c
  <2>5. IsObject(n) /\ n.inc_b = 0
    BY <2>4, FlaggedIs DEF Keeps
  <2> HIDE DEF n
  <2>6. \A p, fs : IsObject(p) /\ p.inc_b = 0 => Reject(p, fs).inc_b = 0
    BY FlaggedIs DEF Reject
  <2>7. SizeChecks(n).inc_b = 0
    <3> DEFINE w == Flag(/\ n.win_du # 0
                         /\ n.size_d1_du \div n.win_du > RatioThreshold, "WINDOW_SIZE")
    <3>1. SizeChecks(n) \in {Reject(n, {"SRC"}), Reject(n, {"DST", "OUTBOUNDS"}),
                             Reject(n, {"WINDOW_SIZE"}), Flagged(n, w)}
      BY DEF SizeChecks
    <3> HIDE DEF w
    <3> QED BY <2>5, <2>6, <3>1, FlaggedIs
  <2> HIDE DEF s
  <2> QED BY <2>1, <2>2, <2>3, <2>4, <2>5, <2>6, <2>7
<1> HIDE DEF s
<1>4. Describes(s, u) /\ s.dim = t.dim
  BY <1>2, <1>3 DEF Describes, Keeps, UserFieldNames
<1> QED BY <1>4 DEF s

(* A mask leaves what fits its field.                                      *)
LEMMA MaskedFits ==
    ASSUME NEW mask \in Nat, NEW n \in 0 .. mask
    PROVE  Masked(n, mask) = n
<1>1. n \in Nat /\ n < mask + 1
  OBVIOUS
<1> DEFINE m == mask + 1
<1>2. m \in Nat /\ n < m
  BY <1>1
<1> HIDE DEF m
<1>3. n % m = n
  BY <1>1, <1>2
<1> QED BY <1>3 DEF Masked, m

(* A load leaves the object as described and the registers with it.        *)
LEMMA LoadedIs ==
    ASSUME NEW u, NEW t, Describes(t, u), u.mode # "ADDRESS",
           u.dim \in {Dim1D, Dim2D}, Fits(u),
           NEW r, DOMAIN r = RegNames,
           u.dim = Dim1D /\ ~Framed(u) => r.pad_left = 0 /\ r.pad_right = 0,
           u.dim = Dim1D => r.pad_top = 0 /\ r.pad_bottom = 0 /\ ~Bordered(u)
    PROVE  /\ Describes(AsMatrix(t), u)
           /\ DOMAIN LoadedRegs(r, t) = RegNames
           /\ LoadedRegs(r, t).mode # "ADDRESS"
           /\ LoadedWith(LoadedRegs(r, t), AsMatrix(t), u)
           /\ LoadedRegs(r, t).pad_left \in {r.pad_left, u.pad_left_du}
           /\ LoadedRegs(r, t).pad_right \in {r.pad_right, u.pad_right_du}
           /\ LoadedRegs(r, t).pad_top \in {r.pad_top, u.pad_top_du}
           /\ LoadedRegs(r, t).pad_bottom \in {r.pad_bottom, u.pad_bottom_du}
<1> DEFINE m == AsMatrix(t)
           q == LoadedRegs(r, t)
<1>1. PadsRow(t) => /\ m.dim = Dim2D /\ m.size_d2_du = 1
                    /\ PadsRow(u)
  BY DEF Describes, AsMatrix, PadsRow, IsObject, AllFields, UserFieldNames, Dim1D, Dim2D
<1>2. /\ IsObject(m) /\ m.inc_b = 0 /\ m.dst = t.dst
      /\ DOMAIN m.src = TargetFieldNames
      /\ m.src.ptr = t.src.ptr /\ m.src.inc_d1_du = t.src.inc_d1_du
      /\ m.src.type = t.src.type /\ m.src.trig = t.src.trig
  BY DEF Describes, AsMatrix, IsObject, AllFields, UserFieldNames, TargetFieldNames
<1>3. /\ m.mode = t.mode /\ m.channel = t.channel /\ m.size_d1_du = t.size_d1_du
      /\ m.pad_top_du = t.pad_top_du /\ m.pad_bottom_du = t.pad_bottom_du
      /\ m.pad_left_du = t.pad_left_du /\ m.pad_right_du = t.pad_right_du
      /\ ~PadsRow(t) => m = t
  BY DEF Describes, AsMatrix, IsObject, AllFields, UserFieldNames
<1>4. Describes(m, u)
  BY <1>1, <1>2, <1>3 DEF Describes
<1>5. /\ q.mode = m.mode /\ q.src_ptr = m.src.ptr /\ q.dim = m.dim
      /\ q.rx_trigger = m.src.trig /\ q.tx_trigger = m.dst.trig
      /\ q.src_inc_d1 = Inc1D(m.src, m)
      /\ m.dim = Dim2D =>
           q.src_inc_d2 = Inc2D(m.src, m)
      /\ q.pad_left = IF m.dim = Dim2D THEN Masked(m.pad_left_du, PAD_MASK) ELSE r.pad_left
      /\ q.pad_right = IF m.dim = Dim2D THEN Masked(m.pad_right_du, PAD_MASK) ELSE r.pad_right
      /\ q.pad_top = IF t.dim = Dim2D THEN Masked(m.pad_top_du, PAD_MASK) ELSE r.pad_top
      /\ q.pad_bottom = IF t.dim = Dim2D THEN Masked(m.pad_bottom_du, PAD_MASK) ELSE r.pad_bottom
      /\ m.mode # "ADDRESS" =>
           /\ q.dst_ptr = m.dst.ptr
           /\ q.dst_inc_d1 = Inc1D(m.dst, m)
           /\ m.dim = Dim2D =>
                q.dst_inc_d2 = Inc2D(m.dst, m)
      /\ DOMAIN q = RegNames
  BY RegNamesAre DEF LoadedRegs
<1>6. /\ Inc1D(m.src, m) = Inc1D(u.src, DriverFields)
      /\ Inc1D(m.dst, m) = Inc1D(u.dst, DriverFields)
      /\ u.dim = Dim2D =>
           /\ m.dim = Dim2D
           /\ Inc2D(m.src, m) = Inc2D(u.src, DriverFields)
           /\ Inc2D(m.dst, m) = Inc2D(u.dst, DriverFields)
  BY <1>4 DEF Describes, Inc1D, Inc2D, get_increment_b_1D, get_increment_b_2D, DriverFields,
     PadsRow, Dim1D, Dim2D
<1>13. /\ \A g \in {u.src, u.dst} :
             /\ Inc1D(g, DriverFields) = get_increment_b_1D(g, DriverFields)
             /\ Inc2D(g, DriverFields) = get_increment_b_2D(g, DriverFields)
       /\ \A p \in {u.pad_top_du, u.pad_bottom_du, u.pad_left_du, u.pad_right_du} :
             Masked(p, PAD_MASK) = p
  <2>1. PAD_MASK \in Nat /\ INC_D1_MASK \in Nat /\ INC_D2_MASK \in Nat
    BY SMT DEF INC_D1_MASK, INC_D2_MASK, PAD_MASK
  <2> QED BY <2>1, MaskedFits DEF Fits, Inc1D, Inc2D
<1>14. /\ m.pad_left_du = u.pad_left_du /\ m.pad_right_du = u.pad_right_du
       /\ m.pad_top_du = u.pad_top_du /\ m.pad_bottom_du = u.pad_bottom_du
  BY <1>4 DEF Describes
<1>7. m.dim = Dim2D => t.dim = Dim2D \/ PadsRow(t)
  BY <1>3
<1>8. t.dim # Dim2D => t.dim = Dim1D /\ u.dim = Dim1D
  BY DEF Describes
<1> HIDE DEF m, q
<1>9. /\ PadsRow(u) => m.dim = Dim2D
      /\ m.dim # Dim2D => u.dim = Dim1D /\ ~Framed(u)
  BY <1>1, <1>3, <1>8 DEF Describes, PadsRow, Framed, Dim1D, Dim2D
<1>10. LoadedWith(q, m, u)
  BY <1>4, <1>5, <1>6, <1>8, <1>9, <1>13, <1>14 DEF LoadedWith, Describes, Framed, Bordered
<1>11. q.mode # "ADDRESS"
  BY <1>4, <1>5 DEF Describes
<1>12. /\ q.pad_left \in {r.pad_left, u.pad_left_du}
       /\ q.pad_right \in {r.pad_right, u.pad_right_du}
       /\ q.pad_top \in {r.pad_top, u.pad_top_du}
       /\ q.pad_bottom \in {r.pad_bottom, u.pad_bottom_du}
  BY <1>5, <1>13, <1>14
<1> QED BY <1>4, <1>5, <1>10, <1>11, <1>12 DEF m, q

(* With the sizes written, the registers are what the application asked.   *)
LEMMA PerformsAsked ==
    ASSUME NEW u, NEW t, Describes(t, u), u.mode # "ADDRESS",
           u.dim \in {Dim1D, Dim2D}, u.size_d1_du \in Nat, u.size_d2_du \in Nat,
           u.size_d1_du < 65536, u.size_d2_du < 65536,
           NEW r, r.mode # "ADDRESS", LoadedWith(r, t, u),
           r.size_d1 = t.size_d1_du % 65536,
           t.dim = Dim2D => r.size_d2 = t.size_d2_du % 65536
    PROVE  Performed(r) = Asked(u)
<1>0. \A n \in Nat : n < 65536 => n % 65536 = n
  OBVIOUS
<1>1. r.size_d1 = u.size_d1_du
  BY <1>0 DEF Describes
<1>2. (IF r.dim = Dim2D THEN r.size_d2 ELSE 1) = (IF u.dim = Dim2D THEN u.size_d2_du ELSE 1)
  <2>1. CASE t.dim = u.dim /\ t.size_d2_du = u.size_d2_du
    BY <1>0, <2>1 DEF LoadedWith
  <2>2. CASE PadsRow(u) /\ t.dim = Dim2D /\ t.size_d2_du = 1
    BY <1>0, <2>2 DEF LoadedWith, PadsRow, Dim1D, Dim2D
  <2> QED BY <2>1, <2>2 DEF Describes
<1>3. (r.dim = Dim2D /\ r.size_d2 # 1) <=> (u.dim = Dim2D /\ u.size_d2_du # 1)
  <2>1. CASE t.dim = u.dim /\ t.size_d2_du = u.size_d2_du
    BY <1>0, <2>1 DEF LoadedWith
  <2>2. CASE PadsRow(u) /\ t.dim = Dim2D /\ t.size_d2_du = 1
    BY <1>0, <2>2 DEF LoadedWith, PadsRow, Dim1D, Dim2D
  <2> QED BY <2>1, <2>2 DEF Describes
<1> QED BY <1>1, <1>2, <1>3 DEF Performed, Asked, LoadedWith
-----------------------------------------------------------------------------
(* The steps                                                               *)

\* Everything the invariant is about.
seen == << trans, cb, regs, hw, start_pending, main, job >>

(* What the application writes into its objects.                           *)
LEMMA AppIs ==
    \A x \in Trans :
        /\ App[x].channel \in Channels /\ App[x].dim \in {Dim1D, Dim2D}
        /\ App[x].size_d1_du \in Nat /\ App[x].size_d2_du \in Nat
        /\ UserOK(App[x])
<1> TAKE x \in Trans
<1>1. UserOK(App[x]) /\ App[x].channel < DMA_CH_NUM /\ DMA_CH_NUM \in Nat
  BY HalAssumption, ValidateAssumption
<1> QED BY <1>1 DEF UserOK, Channels

(* After dma_init and before the first call.                               *)
LEMMA Starts ==
    ASSUME HalInit
    PROVE  HalInv
<1>1. \A x \in Trans : trans[x] = Struct(App[x], DriverFields)
  BY DEF HalInit
<1>2. \A x \in Trans : Describes(trans[x], App[x])
  <2> TAKE x \in Trans
  <2> DEFINE t == Struct(App[x], DriverFields)
  <2>1. t.inc_b = 0
    BY DEF Struct, DriverFields, UserFieldNames
  <2>2. Keeps(App[x], t)
    BY StructIs
  <2>3. DOMAIN App[x].src = TargetFieldNames
    BY AppIs DEF UserOK, TargetOK
  <2> HIDE DEF t
  <2>4. Describes(t, App[x])
    BY <2>1, <2>2, <2>3 DEF Describes, Keeps, UserFieldNames
  <2> QED BY <1>1, <2>4 DEF t
<1>3. Objects
  BY <1>2 DEF HalInit, Objects
<1>4. Types
  BY DEF HalInit, Types, ClearedRegs, RegNames
<1>5. Calls
  BY DEF HalInit, Calls, AtRest, LoadSteps, LaunchSteps
<1>6. \A c \in Channels : LoadedOn(c) /\ Works(c) /\ FrameOf(regs[c], c)
  BY HalAssumption
  DEF HalInit, LoadedOn, Works, FrameOf, Busy, dma_is_ready, ClearedRegs
<1> QED BY <1>3, <1>4, <1>5, <1>6 DEF HalInv

(* Steps that touch nothing of the invariant.                              *)
LEMMA Unseen ==
    ASSUME HalInv, UNCHANGED seen
    PROVE  HalInv'
BY DEF HalInv, Objects, Types, Calls, LoadedOn, Works, FrameOf, Busy, dma_is_ready,
       c0, x0, seen

(* Steps that only change the flag of a callback, or where a call is among *)
(* the steps that come before the registers are loaded.                    *)
LEMMA Flags ==
    ASSUME HalInv, NEW c \in Channels, NEW b \in BOOLEAN,
           cb' = [cb EXCEPT ![c].intrFlag = b],
           UNCHANGED << trans, regs, hw, start_pending, main, job >>
    PROVE  HalInv'
<1>1. /\ \A d \in Channels : cb'[d].trans = cb[d].trans
      /\ cb' \in [Channels -> [trans : Trans \cup {NULL}, intrFlag : BOOLEAN]]
  BY DEF HalInv, Types
<1>2. c0' = c0 /\ x0' = x0
  BY DEF c0, x0
<1>3. main.pc \in LoadSteps => c0 \in Channels
  BY AppIs DEF HalInv, Types, Objects, Describes, AtRest, LoadSteps, c0, x0
<1> QED BY <1>1, <1>2, <1>3
    DEF HalInv, Objects, Types, Calls, LoadedOn, Works, FrameOf, Busy, dma_is_ready

(* The object and the channel of the call that goes on.                    *)
LEMMA CallIs ==
    ASSUME HalInv, main.pc # "app"
    PROVE  /\ x0 \in Trans /\ c0 = App[x0].channel /\ c0 \in Channels
           /\ main \in [pc : LoadSteps \cup LaunchSteps \cup {"launch_wait"}, x : Trans]
BY AppIs DEF HalInv, Types, Objects, Describes, AtRest, c0, x0

(* A load that is refused forgets the object of the channel, a load that   *)
(* goes on claims a channel that is ready.                                 *)
LEMMA LoadCheckKeeps ==
    ASSUME HalInv, NEW x \in Trans, LoadCheck(x)
    PROVE  HalInv'
<1> DEFINE c == trans[x].channel
<1>1. c = App[x].channel /\ c \in Channels
  BY AppIs DEF HalInv, Objects, Describes
<1>2. main = AtRest /\ UNCHANGED << trans, regs, hw, start_pending, job >>
  BY DEF LoadCheck, regVars, hwVars
<1> HIDE DEF c
<1>3. CASE cb' = [cb EXCEPT ![c].trans = NULL] /\ UNCHANGED main
  <2>1. /\ cb' \in [Channels -> [trans : Trans \cup {NULL}, intrFlag : BOOLEAN]]
        /\ \A d \in Channels : cb'[d].trans \in {NULL, cb[d].trans}
    BY <1>3 DEF HalInv, Types
  <2> QED BY <1>2, <1>3, <2>1, HalAssumption
          DEF HalInv, Objects, Types, Calls, LoadedOn, Works, FrameOf, Busy, dma_is_ready,
              AtRest, LoadSteps, LaunchSteps
<1>4. CASE UNCHANGED << cb, main >>
  BY <1>2, <1>4, Unseen DEF seen
<1>5. CASE dma_is_ready(c) /\ Call("load_claim", x) /\ UNCHANGED cb
  <2>1. main' = [pc |-> "load_claim", x |-> x] /\ c0' = c /\ x0' = x
    BY <1>2, <1>5 DEF Call, c0, x0, c
  <2> QED BY <1>2, <1>5, <2>1
          DEF HalInv, Objects, Types, Calls, LoadedOn, Works, FrameOf, Busy, dma_is_ready,
              AtRest, LoadSteps, LaunchSteps
<1> QED BY <1>3, <1>4, <1>5 DEF LoadCheck, c

(* Claiming the channel is the first access of a load.                     *)
LEMMA LoadClaimKeeps ==
    ASSUME HalInv, LoadClaim
    PROVE  HalInv'
<1>1. /\ x0 \in Trans /\ c0 = App[x0].channel /\ c0 \in Channels
      /\ main \in [pc : LoadSteps \cup LaunchSteps \cup {"launch_wait"}, x : Trans]
      /\ main.pc = "load_claim"
  BY CallIs DEF LoadClaim
<1>2. /\ cb' = [cb EXCEPT ![c0].trans = x0]
      /\ UNCHANGED << trans, regs, hw, start_pending, job >>
  BY DEF LoadClaim, regVars, hwVars
<1>3. /\ main' \in [pc : LoadSteps \cup LaunchSteps \cup {"launch_wait"}, x : Trans]
      /\ main'.pc = "load_disable" /\ x0' = x0 /\ c0' = c0
  BY <1>1, <1>2 DEF LoadClaim, Goto, c0, x0, LoadSteps
<1>4. /\ cb' \in [Channels -> [trans : Trans \cup {NULL}, intrFlag : BOOLEAN]]
      /\ cb'[c0].trans = x0 /\ \A d \in Channels \ {c0} : cb'[d] = cb[d]
  BY <1>1, <1>2 DEF HalInv, Types
<1> HIDE DEF c0, x0
<1> QED BY <1>1, <1>2, <1>3, <1>4
    DEF HalInv, Objects, Types, Calls, LoadedOn, Works, FrameOf, Busy, dma_is_ready,
        LoadSteps, LaunchSteps

(* The accesses between the claim and the registers.                       *)
LEMMA LoadAdvances ==
    ASSUME HalInv, main.pc \in LoadSteps \ {"load_claim"},
           NEW p \in LoadSteps \ {"load_claim"}, Goto(p),
           UNCHANGED << trans, cb, regs, hw, start_pending, job >>
    PROVE  HalInv'
<1>1. /\ x0 \in Trans /\ c0 = App[x0].channel /\ c0 \in Channels
      /\ main \in [pc : LoadSteps \cup LaunchSteps \cup {"launch_wait"}, x : Trans]
  BY CallIs DEF LoadSteps
<1>2. /\ main' \in [pc : LoadSteps \cup LaunchSteps \cup {"launch_wait"}, x : Trans]
      /\ main'.pc = p /\ x0' = x0 /\ c0' = c0
  BY <1>1 DEF Goto, c0, x0
<1> HIDE DEF c0, x0
<1> QED BY <1>1, <1>2
    DEF HalInv, Objects, Types, Calls, LoadedOn, Works, FrameOf, Busy, dma_is_ready,
        LoadSteps, LaunchSteps

(* The registers of the loaded channel, which is ready.                    *)
LEMMA LoadRegistersKeeps ==
    ASSUME HalInv, LoadRegisters, NoAddressMode, FieldsFit, FramesAgree
    PROVE  HalInv'
<1> DEFINE u == App[x0]
           t == trans[x0]
           r == regs[c0]
<1>1. /\ x0 \in Trans /\ c0 = u.channel /\ c0 \in Channels
      /\ main \in [pc : LoadSteps \cup LaunchSteps \cup {"launch_wait"}, x : Trans]
      /\ main.pc = "load_registers"
  BY CallIs DEF LoadRegisters
<1>2. /\ trans' = [trans EXCEPT ![x0] = AsMatrix(t)]
      /\ regs' = [regs EXCEPT ![c0] = LoadedRegs(r, t)]
      /\ main' = AtRest /\ UNCHANGED << cb, hw, start_pending, job >>
  BY DEF LoadRegisters, hwVars
<1>3. dma_is_ready(c0) /\ cb[c0].trans = x0
  BY <1>1 DEF HalInv, Calls, LoadSteps
<1>4. /\ Describes(t, u) /\ u.mode # "ADDRESS" /\ u.dim \in {Dim1D, Dim2D}
      /\ DOMAIN r = RegNames /\ FrameOf(r, c0) /\ Fits(u)
  BY <1>1, AppIs DEF HalInv, Objects, Types, NoAddressMode, FieldsFit
<1>5. /\ u.dim = Dim1D /\ ~Framed(u) => r.pad_left = 0 /\ r.pad_right = 0
      /\ u.dim = Dim1D => r.pad_top = 0 /\ r.pad_bottom = 0 /\ ~Bordered(u)
  BY <1>1, <1>4 DEF FramesAgree, FrameOf
<1>6. \A x \in Trans : App[x].channel = c0 =>
         /\ ~Framed(App[x]) => App[x].pad_left_du = 0 /\ App[x].pad_right_du = 0
         /\ ~Bordered(App[x]) => App[x].pad_top_du = 0 /\ App[x].pad_bottom_du = 0
  BY DEF Framed, Bordered
<1> HIDE DEF u, t, r
<1> DEFINE q == LoadedRegs(r, t)
           m == AsMatrix(t)
<1>7. /\ Describes(m, u) /\ DOMAIN q = RegNames /\ q.mode # "ADDRESS"
      /\ LoadedWith(q, m, u)
      /\ q.pad_left \in {r.pad_left, u.pad_left_du}
      /\ q.pad_right \in {r.pad_right, u.pad_right_du}
      /\ q.pad_top \in {r.pad_top, u.pad_top_du}
      /\ q.pad_bottom \in {r.pad_bottom, u.pad_bottom_du}
  BY <1>4, <1>5, LoadedIs
<1> HIDE DEF q, m
<1>8. FrameOf(q, c0)
  BY <1>1, <1>4, <1>6, <1>7 DEF FrameOf, u
<1>9. /\ regs'[c0] = q /\ \A d \in Channels \ {c0} : regs'[d] = regs[d]
      /\ regs' = [c \in Channels |-> regs'[c]]
      /\ trans'[x0] = m /\ \A y \in Trans \ {x0} : trans'[y] = trans[y]
      /\ trans' = [x \in Trans |-> trans'[x]]
  BY <1>1, <1>2 DEF HalInv, Objects, Types, q, m
<1> HIDE DEF c0, x0
<1>10. Objects'
  BY <1>7, <1>9 DEF HalInv, Objects, u
<1>11. Types'
  BY <1>2, <1>7, <1>9 DEF HalInv, Types
<1>12. Calls'
  BY <1>2 DEF Calls, AtRest, LoadSteps, LaunchSteps
<1>13. ASSUME NEW d \in Channels
       PROVE  (LoadedOn(d) /\ Works(d) /\ FrameOf(regs[d], d))'
  <2>1. CASE d = c0
    <3>1. LoadedOn(d)'
      BY <1>1, <1>2, <1>3, <1>7, <1>9, <2>1 DEF LoadedOn, u
    <3>2. ~Busy(d)'
      BY <1>2, <1>3, <2>1 DEF Busy, dma_is_ready
    <3> QED BY <1>8, <1>9, <2>1, <3>1, <3>2 DEF Works, FrameOf
  <2>2. CASE d # c0
    <3>1. LoadedOn(d) /\ Works(d) /\ FrameOf(regs[d], d)
      BY DEF HalInv
    <3>2. cb[d].trans \in Trans => cb[d].trans # x0
      BY <1>1, <2>2, <3>1 DEF LoadedOn, u
    <3>3. LoadedOn(d)'
      BY <1>2, <1>9, <2>2, <3>1, <3>2 DEF LoadedOn
    <3> QED BY <1>2, <1>9, <2>2, <3>1, <3>3 DEF Works, FrameOf, Busy, dma_is_ready
  <2> QED BY <2>1, <2>2
<1> QED BY <1>10, <1>11, <1>12, <1>13 DEF HalInv

(* A launch is of the object that is loaded, and its channel is ready.     *)
LEMMA LaunchCheckKeeps ==
    ASSUME HalInv, NEW x \in Trans, LaunchCheck(x)
    PROVE  HalInv'
<1> DEFINE c == trans[x].channel
<1>1. c = App[x].channel /\ c \in Channels
  BY AppIs DEF HalInv, Objects, Describes
<1>2. main = AtRest /\ UNCHANGED << trans, cb, regs, hw, start_pending, job >>
  BY DEF LaunchCheck, regVars, hwVars
<1> HIDE DEF c
<1>3. CASE UNCHANGED main
  BY <1>2, <1>3, Unseen DEF seen
<1>4. CASE cb[c].trans = x /\ dma_is_ready(c) /\ Call("launch_flag", x)
  <2>1. main' = [pc |-> "launch_flag", x |-> x] /\ c0' = c /\ x0' = x
    BY <1>2, <1>4 DEF Call, c0, x0, c
  <2>2. LoadedWith(regs[c], trans[x], App[x])
    BY <1>1, <1>2, <1>4 DEF HalInv, LoadedOn, AtRest, LoadSteps
  <2> QED BY <1>1, <1>2, <1>4, <2>1, <2>2
          DEF HalInv, Objects, Types, Calls, LoadedOn, Works, FrameOf, Busy, dma_is_ready,
              AtRest, LoadSteps, LaunchSteps
<1> QED BY <1>3, <1>4 DEF LaunchCheck, c

(* The launch clears the flag of the channel it is about to start.         *)
LEMMA LaunchFlagKeeps ==
    ASSUME HalInv, LaunchFlag
    PROVE  HalInv'
<1>1. /\ x0 \in Trans /\ c0 = App[x0].channel /\ c0 \in Channels
      /\ main \in [pc : LoadSteps \cup LaunchSteps \cup {"launch_wait"}, x : Trans]
      /\ main.pc = "launch_flag"
  BY CallIs DEF LaunchFlag
<1>2. /\ cb' = [cb EXCEPT ![c0].intrFlag = FALSE]
      /\ UNCHANGED << trans, regs, hw, start_pending, job >>
  BY DEF LaunchFlag, regVars, hwVars
<1>3. /\ main' \in [pc : LoadSteps \cup LaunchSteps \cup {"launch_wait"}, x : Trans]
      /\ main'.pc = "launch_size" /\ x0' = x0 /\ c0' = c0
  BY <1>1, <1>2 DEF LaunchFlag, Goto, c0, x0, LaunchSteps
<1>4. /\ cb' \in [Channels -> [trans : Trans \cup {NULL}, intrFlag : BOOLEAN]]
      /\ \A d \in Channels : cb'[d].trans = cb[d].trans
  BY <1>1, <1>2 DEF HalInv, Types
<1> HIDE DEF c0, x0
<1> QED BY <1>1, <1>2, <1>3, <1>4
    DEF HalInv, Objects, Types, Calls, LoadedOn, Works, FrameOf, Busy, dma_is_ready,
        LoadSteps, LaunchSteps

(* The sizes: a channel that is started performs what was asked.           *)
LEMMA LaunchSizeKeeps ==
    ASSUME HalInv, LaunchSize, NoAddressMode, SizesFit
    PROVE  HalInv'
<1> DEFINE u == App[x0]
           t == trans[x0]
           r == regs[c0]
           d1 == t.size_d1_du % 65536
           q == regs'[c0]
<1>1. /\ x0 \in Trans /\ c0 = u.channel /\ c0 \in Channels
      /\ main \in [pc : LoadSteps \cup LaunchSteps \cup {"launch_wait"}, x : Trans]
      /\ main.pc = "launch_size"
  BY CallIs DEF LaunchSize
<1>2. /\ dma_is_ready(c0) /\ LoadedWith(r, t, u)
      /\ DOMAIN r = RegNames /\ r.mode # "ADDRESS" /\ FrameOf(r, c0)
  BY <1>1 DEF HalInv, Calls, Types, LaunchSteps
<1>3. /\ Describes(t, u) /\ u.mode # "ADDRESS" /\ u.dim \in {Dim1D, Dim2D}
      /\ u.size_d1_du \in Nat /\ u.size_d2_du \in Nat
      /\ u.size_d1_du < 65536 /\ u.size_d2_du < 65536
  BY <1>1, AppIs DEF HalInv, Objects, NoAddressMode, SizesFit
<1>4. /\ start_pending' = [start_pending EXCEPT ![c0] = @ \/ d1 # 0]
      /\ job' = IF d1 # 0 THEN [job EXCEPT ![c0] = x0] ELSE job
      /\ UNCHANGED << trans, cb, hw >>
  BY DEF LaunchSize, WriteSizes, hwVars
<1>5. /\ main' \in [pc : LoadSteps \cup LaunchSteps \cup {"launch_wait"}, x : Trans]
      /\ main'.pc = "launch_wait"
  BY <1>1 DEF LaunchSize, Goto
<1>6. /\ DOMAIN q = RegNames /\ q.size_d1 = d1
      /\ t.dim = Dim2D => q.size_d2 = t.size_d2_du % 65536
      /\ \A f \in RegNames \ {"size_d1", "size_d2"} : q[f] = r[f]
      /\ regs' = [c \in Channels |-> regs'[c]]
      /\ \A d \in Channels \ {c0} : regs'[d] = regs[d]
  <2>1. regs' = [regs EXCEPT ![c0].size_d1 = d1, ![c0].size_d2 = IF t.dim = Dim2D
                                             THEN t.size_d2_du % 65536 ELSE @]
    BY DEF LaunchSize, WriteSizes
  <2>2. regs = [c \in Channels |-> regs[c]]
    BY DEF HalInv, Types
  <2> DEFINE dim == t.dim
             f == regs
             g == regs'
             d2 == t.size_d2_du % 65536
  <2>3. /\ f = [d \in Channels |-> f[d]] /\ DOMAIN f[c0] = RegNames
        /\ g = [f EXCEPT ![c0].size_d1 = d1,
                         ![c0].size_d2 = IF dim = Dim2D THEN d2 ELSE @]
    BY <1>2, <2>1, <2>2
  <2> HIDE DEF t, d1, dim, d2, f, g
  <2>4. /\ DOMAIN g[c0] = RegNames /\ g[c0].size_d1 = d1
        /\ dim = Dim2D => g[c0].size_d2 = d2
        /\ \A n \in RegNames \ {"size_d1", "size_d2"} : g[c0][n] = f[c0][n]
        /\ g = [d \in Channels |-> g[d]]
        /\ \A d \in Channels \ {c0} : g[d] = f[d]
    <3> DEFINE p == [f[c0] EXCEPT !.size_d1 = d1]
               h == [f EXCEPT ![c0].size_d1 = d1]
               v == IF dim = Dim2D THEN d2 ELSE h[c0].size_d2
    <3>1. /\ h[c0] = p /\ h = [d \in Channels |-> h[d]]
          /\ \A d \in Channels \ {c0} : h[d] = f[d]
      BY <1>1, <2>3
    <3>2. /\ DOMAIN p = RegNames /\ p.size_d1 = d1
          /\ \A n \in RegNames \ {"size_d1"} : p[n] = f[c0][n]
      BY <2>3, RegNamesAre
    <3>3. g = [h EXCEPT ![c0].size_d2 = v]
      BY <2>3
    <3> HIDE DEF p, h, v
    <3>4. /\ g[c0] = [p EXCEPT !.size_d2 = v] /\ g = [d \in Channels |-> g[d]]
          /\ \A d \in Channels \ {c0} : g[d] = h[d]
      BY <1>1, <3>1, <3>3
    <3>5. /\ DOMAIN g[c0] = RegNames /\ g[c0].size_d1 = d1 /\ g[c0].size_d2 = v
          /\ \A n \in RegNames \ {"size_d1", "size_d2"} : g[c0][n] = p[n]
      BY <3>2, <3>4, RegNamesAre
    <3> QED BY <3>1, <3>2, <3>4, <3>5 DEF v
  <2> QED BY <2>4 DEF dim, d2, f, g
<1> HIDE DEF u, t, r, d1, q
<1>7. q.mode # "ADDRESS" /\ FrameOf(q, c0) /\ LoadedWith(q, t, u)
  BY <1>2, <1>6, RegNamesAre DEF FrameOf, LoadedWith
<1>8. Performed(q) = Asked(u)
  BY <1>3, <1>6, <1>7, PerformsAsked DEF d1
<1>9. /\ regs'[c0] = q
      /\ start_pending' \in [Channels -> BOOLEAN]
      /\ \A d \in Channels \ {c0} : start_pending'[d] = start_pending[d]
      /\ ~start_pending[c0] /\ (d1 = 0 => ~start_pending'[c0])
  BY <1>1, <1>2, <1>4 DEF HalInv, Types, dma_is_ready, q
<1>10. /\ job' \in [Channels -> Trans \cup {NULL}]
       /\ d1 # 0 => job'[c0] = x0
       /\ \A d \in Channels \ {c0} : job'[d] = job[d]
  BY <1>1, <1>4 DEF HalInv, Types
<1> HIDE DEF c0, x0
<1>11. Objects'
  BY <1>4 DEF HalInv, Objects
<1>12. Types'
  BY <1>4, <1>5, <1>6, <1>7, <1>9, <1>10 DEF HalInv, Types
<1>13. Calls'
  BY <1>5 DEF Calls, LoadSteps, LaunchSteps
<1>14. ASSUME NEW d \in Channels
       PROVE  (LoadedOn(d) /\ Works(d) /\ FrameOf(regs[d], d))'
  <2>1. LoadedOn(d) /\ Works(d) /\ FrameOf(regs[d], d)
    BY DEF HalInv
  <2>2. CASE d = c0
    <3>1. LoadedOn(d)'
      <4> DEFINE y == cb[d].trans
      <4>1. y \in Trans => App[y].channel = d /\ LoadedWith(r, trans[y], App[y])
        BY <1>1, <2>1, <2>2 DEF LoadedOn, LoadSteps, r
      <4>2. y \in Trans => LoadedWith(q, trans[y], App[y])
        BY <1>6, <4>1, RegNamesAre DEF LoadedWith
      <4> QED BY <1>4, <1>9, <2>2, <4>1, <4>2 DEF LoadedOn
    <3>2. Works(d)'
      <4>1. Busy(d)' => d1 # 0
        BY <1>2, <1>4, <1>9, <2>2 DEF Busy, dma_is_ready
      <4> QED BY <1>1, <1>8, <1>9, <1>10, <2>2, <4>1 DEF Works, u
    <3> QED BY <1>7, <1>9, <2>2, <3>1, <3>2 DEF FrameOf
  <2>3. CASE d # c0
    <3>1. LoadedOn(d)'
      BY <1>1, <1>4, <1>6, <1>9, <2>1, <2>3 DEF LoadedOn, LoadSteps
    <3> QED BY <1>4, <1>6, <1>9, <1>10, <2>1, <2>3, <3>1 DEF Works, FrameOf, Busy, dma_is_ready
  <2> QED BY <2>2, <2>3
<1> QED BY <1>11, <1>12, <1>13, <1>14 DEF HalInv

(* The launch returns.                                                     *)
LEMMA LaunchReturnKeeps ==
    ASSUME HalInv, LaunchReturn
    PROVE  HalInv'
<1>1. /\ main.pc = "launch_wait" /\ main' = AtRest
      /\ UNCHANGED << trans, cb, regs, hw, start_pending, job >>
  BY DEF LaunchReturn, regVars, hwVars
<1> QED BY <1>1
    DEF HalInv, Objects, Types, Calls, LoadedOn, Works, FrameOf, Busy, dma_is_ready,
        AtRest, LoadSteps, LaunchSteps

(* Stopping a circular channel, busy or not, changes its mode only.        *)
LEMMA StopKeeps ==
    ASSUME HalInv, NEW c \in Channels, dma_stop_circular(c)
    PROVE  HalInv'
<1> DEFINE r == regs[c]
           q == [r EXCEPT !.mode = "SINGLE"]
<1>1. /\ main = AtRest /\ regs' = [regs EXCEPT ![c] = q]
      /\ UNCHANGED << trans, cb, main, hw, start_pending, job >>
  BY DEF dma_stop_circular, swVars, hwVars
<1>2. /\ DOMAIN q = RegNames /\ q.mode # "ADDRESS" /\ r.mode # "ADDRESS"
      /\ \A f \in RegNames \ {"mode"} : q[f] = r[f]
  BY RegNamesAre DEF HalInv, Types
<1>3. /\ regs'[c] = q /\ regs' = [d \in Channels |-> regs'[d]]
      /\ \A d \in Channels \ {c} : regs'[d] = regs[d]
  BY <1>1 DEF HalInv, Types
<1> HIDE DEF q
<1>4. /\ Performed(q) = Performed(r) /\ (FrameOf(r, c) => FrameOf(q, c))
      /\ \A t, u : LoadedWith(r, t, u) => LoadedWith(q, t, u)
  BY <1>2, RegNamesAre DEF Performed, FrameOf, LoadedWith
<1>5. Objects' /\ Calls'
  BY <1>1 DEF HalInv, Objects, Calls, AtRest, LoadSteps, LaunchSteps
<1>6. Types'
  BY <1>1, <1>2, <1>3 DEF HalInv, Types
<1>7. ASSUME NEW d \in Channels
      PROVE  (LoadedOn(d) /\ Works(d) /\ FrameOf(regs[d], d))'
  <2>1. LoadedOn(d) /\ Works(d) /\ FrameOf(regs[d], d)
    BY DEF HalInv
  <2>2. main.pc \notin LoadSteps
    BY <1>1 DEF AtRest, LoadSteps
  <2>3. CASE d = c
    BY <1>1, <1>3, <1>4, <2>1, <2>2, <2>3 DEF LoadedOn, Works, Busy, dma_is_ready
  <2>4. CASE d # c
    BY <1>1, <1>3, <2>1, <2>2, <2>4 DEF LoadedOn, Works, Busy, dma_is_ready
  <2> QED BY <2>3, <2>4
<1> QED BY <1>5, <1>6, <1>7 DEF HalInv

(* A validation between a load and a launch changes nothing of it.         *)
LEMMA ValidateKeeps ==
    ASSUME HalInv, NEW x \in Trans, NEW check \in BOOLEAN, ValidateCall(x, FALSE, check)
    PROVE  HalInv'
<1> DEFINE s == dma_validate_transaction(trans[x], FALSE, check)
<1>1. /\ main = AtRest /\ trans' = [trans EXCEPT ![x] = s]
      /\ UNCHANGED << cb, main, regs, hw, start_pending, job >>
  BY DEF ValidateCall, Validate, swVars, regVars, hwVars
<1>2. Describes(s, App[x]) /\ s.dim = trans[x].dim
  BY ValidateDescribes DEF HalInv, Objects
<1> HIDE DEF s
<1>3. /\ trans'[x] = s /\ trans' = [y \in Trans |-> trans'[y]]
      /\ \A y \in Trans \ {x} : trans'[y] = trans[y]
  BY <1>1 DEF HalInv, Objects
<1>4. \A r, y : y \in Trans /\ LoadedWith(r, trans[y], App[y])
                   => LoadedWith(r, trans'[y], App[y])
  BY <1>2, <1>3 DEF LoadedWith
<1>5. Objects'
  BY <1>2, <1>3 DEF HalInv, Objects
<1>6. Types' /\ Calls'
  BY <1>1 DEF HalInv, Types, Calls, AtRest, LoadSteps, LaunchSteps
<1> QED BY <1>1, <1>4, <1>5, <1>6
    DEF HalInv, LoadedOn, Works, FrameOf, Busy, dma_is_ready, AtRest, LoadSteps

(* A channel that starts was busy already; one that ends has nothing to    *)
(* answer for unless it was started again meanwhile.                       *)
LEMMA ChannelKeeps ==
    ASSUME HalInv, NEW c \in Channels, ChannelStarts(c) \/ ChannelEnds(c)
    PROVE  HalInv'
<1>1. UNCHANGED << trans, cb, regs, main >>
  BY DEF ChannelStarts, ChannelEnds, swVars, regVars
<1>2. /\ hw' \in [Channels -> {"READY", "RUNNING"}]
      /\ start_pending' \in [Channels -> BOOLEAN]
      /\ job' \in [Channels -> Trans \cup {NULL}]
  BY DEF HalInv, Types, ChannelStarts, ChannelEnds
<1>3. \A d \in Channels :
         /\ dma_is_ready(d) => dma_is_ready(d)'
         /\ ~dma_is_ready(d)' => job'[d] = job[d]
  BY DEF HalInv, Types, ChannelStarts, ChannelEnds, dma_is_ready
<1>4. c0' = c0 /\ x0' = x0 /\ (main.pc \in LoadSteps \cup LaunchSteps => c0 \in Channels)
  <2>1. main.pc \in LoadSteps \cup LaunchSteps => main.pc # "app"
    BY DEF LoadSteps, LaunchSteps
  <2> QED BY <1>1, <2>1, CallIs DEF c0, x0
<1> HIDE DEF c0, x0, dma_is_ready
<1> QED BY <1>1, <1>2, <1>3, <1>4
    DEF HalInv, Objects, Types, Calls, LoadedOn, Works, FrameOf, Busy

(* A handler that visits a channel may set the flag of its transaction.    *)
LEMMA VisitKeeps ==
    ASSUME HalInv, NEW k \in Kinds, NEW c \in Channels, Visit(k, c)
    PROVE  HalInv'
<1>1. UNCHANGED << trans, regs, hw, start_pending, main, job >>
  BY DEF Visit, regVars, hwVars
<1>2. CASE UNCHANGED cb
  BY <1>1, <1>2, Unseen DEF seen
<1>3. CASE Callback(k, c)
  <2> DEFINE b == cb[c].intrFlag \/ k = "transaction"
  <2>1. b \in BOOLEAN
    BY DEF HalInv, Types
  <2>2. cb' = [cb EXCEPT ![c].intrFlag = b]
    BY <1>3 DEF Callback
  <2> HIDE DEF b
  <2> QED BY <1>1, <2>1, <2>2, Flags
<1> QED BY <1>2, <1>3 DEF Visit

(* Every step of the application, the handlers and the channels.           *)
LEMMA StepKeeps ==
    ASSUME HalInv, [HalNext]_halVars, NoAddressMode, SizesFit, FieldsFit, FramesAgree
    PROVE  HalInv'
<1>1. ASSUME NEW x \in Trans, LoadCheck(x) \/ LaunchCheck(x)
      PROVE  HalInv'
  BY <1>1, LoadCheckKeeps, LaunchCheckKeeps
<1>2. ASSUME NEW x \in Trans, NEW check \in BOOLEAN, ValidateCall(x, FALSE, check)
      PROVE  HalInv'
  BY <1>2, ValidateKeeps
<1>3. ASSUME NEW c \in Channels, dma_stop_circular(c)
      PROVE  HalInv'
  BY <1>3, StopKeeps
<1>4. CASE LoadClaim
  BY <1>4, LoadClaimKeeps
<1>5. CASE LoadDisable \/ LoadMask \/ LoadUnmask \/ LoadEnable
  <2>1. /\ main.pc \in LoadSteps \ {"load_claim"}
        /\ UNCHANGED << trans, cb, regs, hw, start_pending, job >>
        /\ \E p \in LoadSteps \ {"load_claim"} : Goto(p)
    BY <1>5 DEF LoadDisable, LoadMask, LoadUnmask, LoadEnable, regVars, hwVars, LoadSteps
  <2> QED BY <2>1, LoadAdvances
<1>6. CASE LoadRegisters
  BY <1>6, LoadRegistersKeeps
<1>7. CASE LaunchFlag \/ LaunchSize \/ LaunchReturn
  BY <1>7, LaunchFlagKeeps, LaunchSizeKeeps, LaunchReturnKeeps
<1>8. CASE Wfi \/ IsrReturn \/ FicLatches \/ UNCHANGED halVars
  <2>1. UNCHANGED seen
    BY <1>8 DEF Wfi, IsrReturn, FicLatches, halVars, seen, swVars, regVars, hwVars
  <2> QED BY <2>1, Unseen
<1>9. ASSUME NEW k \in Kinds, TakeInterrupt(k)
      PROVE  HalInv'
  <2>1. UNCHANGED seen
    BY <1>9 DEF TakeInterrupt, seen, regVars, hwVars
  <2> QED BY <2>1, Unseen
<1>10. ASSUME NEW k \in Kinds, NEW c \in Channels, Visit(k, c)
       PROVE  HalInv'
  BY <1>10, VisitKeeps
<1>11. ASSUME NEW c \in Channels, WindowEnds(c)
       PROVE  HalInv'
  <2>1. UNCHANGED seen
    BY <1>11 DEF WindowEnds, seen, swVars, regVars, hwVars
  <2> QED BY <2>1, Unseen
<1>12. ASSUME NEW c \in Channels, ChannelStarts(c) \/ ChannelEnds(c)
       PROVE  HalInv'
  BY <1>12, ChannelKeeps
<1> QED BY <1>1, <1>2, <1>3, <1>4, <1>5, <1>6, <1>7, <1>8, <1>9, <1>10, <1>11, <1>12
        DEF HalNext, Begins, Proceeds, Handles

(* The invariant of the driver at work.                                    *)
LEMMA HalInvariant ==
    ASSUME NoAddressMode, SizesFit, FieldsFit, FramesAgree
    PROVE  HalSpec => []HalInv
<1>1. HalInit => HalInv
  BY Starts
<1>2. HalInv /\ [HalNext]_halVars => HalInv'
  BY StepKeeps
<1> QED BY <1>1, <1>2, PTL DEF HalSpec

-----------------------------------------------------------------------------
(* That the registers of a busy channel are left alone needs less, and     *)
(* nothing of the application.                                             *)

\* A call that goes on, up to the write that starts the channel, works on a
\* channel that is ready, and its object stays on that channel.
CallInv ==
    /\ trans = [x \in Trans |-> trans[x]] /\ regs = [c \in Channels |-> regs[c]]
    /\ \A x \in Trans : IsObject(trans[x]) /\ trans[x].channel \in Channels
    /\ hw \in [Channels -> {"READY", "RUNNING"}]
    /\ start_pending \in [Channels -> BOOLEAN]
    /\ \/ main = AtRest
       \/ main \in [pc : LoadSteps \cup LaunchSteps \cup {"launch_wait"}, x : Trans]
    /\ main.pc \in LoadSteps \cup LaunchSteps => dma_is_ready(c0)

(* A load, a launch or a validation begins, goes on or returns without     *)
(* starting a channel.                                                     *)
LEMMA CallGoesOn ==
    ASSUME CallInv, UNCHANGED << trans, hw, start_pending >>,
           regs' = [c \in Channels |-> regs'[c]],
           \/ main' \in {main, AtRest}
           \/ \E p \in LoadSteps \cup LaunchSteps :
                 \/ main.pc \in LoadSteps \cup LaunchSteps /\ Goto(p)
                 \/ \E x \in Trans : dma_is_ready(trans[x].channel) /\ Call(p, x)
    PROVE  CallInv'
<1>1. CASE main' = main
  BY <1>1 DEF CallInv, c0, x0, dma_is_ready
<1>2. CASE main' = AtRest
  BY <1>2 DEF CallInv, AtRest, LoadSteps, LaunchSteps
<1>3. ASSUME NEW p \in LoadSteps \cup LaunchSteps,
             main.pc \in LoadSteps \cup LaunchSteps, Goto(p)
      PROVE  CallInv'
  <2>1. main # AtRest
    BY <1>3 DEF AtRest, LoadSteps, LaunchSteps
  <2>2. /\ main' \in [pc : LoadSteps \cup LaunchSteps \cup {"launch_wait"}, x : Trans]
        /\ main'.pc = p /\ main'.x = main.x
    BY <1>3, <2>1 DEF CallInv, Goto
  <2> QED BY <1>3, <2>2 DEF CallInv, c0, x0, dma_is_ready
<1>4. ASSUME NEW p \in LoadSteps \cup LaunchSteps, NEW x \in Trans,
             dma_is_ready(trans[x].channel), Call(p, x)
      PROVE  CallInv'
  BY <1>4 DEF CallInv, Call, c0, x0, dma_is_ready
<1> QED BY <1>1, <1>2, <1>3, <1>4

(* Every step keeps the channel of a call ready until it is started.       *)
LEMMA CallInvariant == HalSpec => []CallInv
<1>1. HalInit => CallInv
  <2> SUFFICES ASSUME HalInit PROVE CallInv
    OBVIOUS
  <2>1. \A x \in Trans : trans[x] = Struct(App[x], DriverFields)
    BY DEF HalInit
  <2>2. \A x \in Trans : IsObject(trans[x]) /\ trans[x].channel \in Channels
    BY <2>1, StructIs, AppIs DEF Keeps, UserFieldNames
  <2> QED BY <2>2 DEF HalInit, CallInv, AtRest, LoadSteps, LaunchSteps
<1>2. CallInv /\ [HalNext]_halVars => CallInv'
  <2> SUFFICES ASSUME CallInv, [HalNext]_halVars PROVE CallInv'
    OBVIOUS
  <2> USE DEF regVars, hwVars, swVars
  <2>1. ASSUME NEW x \in Trans, LoadCheck(x) \/ LaunchCheck(x)
        PROVE  CallInv'
    <3>1. \/ UNCHANGED main
          \/ \E p \in LoadSteps \cup LaunchSteps :
                dma_is_ready(trans[x].channel) /\ Call(p, x)
      BY <2>1 DEF LoadCheck, LaunchCheck, LoadSteps, LaunchSteps
    <3>2. UNCHANGED << trans, regs, hw, start_pending >>
      BY <2>1 DEF LoadCheck, LaunchCheck
    <3>3. regs' = [c \in Channels |-> regs'[c]]
      BY <3>2 DEF CallInv
    <3> QED BY <3>1, <3>2, <3>3, CallGoesOn
  <2>2. CASE \/ LoadClaim \/ LoadDisable \/ LoadMask \/ LoadUnmask \/ LoadEnable
             \/ LaunchFlag \/ LaunchReturn
    <3>1. \/ main' = AtRest
          \/ \E p \in LoadSteps \cup LaunchSteps :
                main.pc \in LoadSteps \cup LaunchSteps /\ Goto(p)
      BY <2>2 DEF LoadClaim, LoadDisable, LoadMask, LoadUnmask, LoadEnable, LaunchFlag,
         LaunchReturn, LoadSteps, LaunchSteps
    <3>2. UNCHANGED << trans, regs, hw, start_pending >>
      BY <2>2 DEF LoadClaim, LoadDisable, LoadMask, LoadUnmask, LoadEnable, LaunchFlag,
         LaunchReturn
    <3>3. regs' = [c \in Channels |-> regs'[c]]
      BY <3>2 DEF CallInv
    <3> QED BY <3>1, <3>2, <3>3, CallGoesOn
  <2>3. CASE LoadRegisters
    <3>1. /\ trans' = [trans EXCEPT ![x0] = AsMatrix(@)] /\ main' = AtRest
          /\ regs' = [regs EXCEPT ![c0] = LoadedRegs(@, trans[x0])]
          /\ UNCHANGED << hw, start_pending >>
      BY <2>3 DEF LoadRegisters
    <3>2. \A t : IsObject(t) => IsObject(AsMatrix(t)) /\ AsMatrix(t).channel = t.channel
      BY DEF AsMatrix, IsObject, AllFields, UserFieldNames
    <3>3. /\ trans' = [x \in Trans |-> trans'[x]]
          /\ \A x \in Trans : trans'[x] \in {trans[x], AsMatrix(trans[x])}
      BY <3>1 DEF CallInv
    <3>4. regs' = [c \in Channels |-> regs'[c]]
      BY <3>1 DEF CallInv
    <3>5. \A x \in Trans : IsObject(trans'[x]) /\ trans'[x].channel \in Channels
      BY <3>2, <3>3 DEF CallInv
    <3> QED BY <3>1, <3>3, <3>4, <3>5 DEF CallInv, AtRest, LoadSteps, LaunchSteps
  <2>4. CASE LaunchSize
    <3>1. main # AtRest /\ main.pc = "launch_size"
      BY <2>4 DEF LaunchSize, AtRest
    <3>2. /\ main' \in [pc : LoadSteps \cup LaunchSteps \cup {"launch_wait"}, x : Trans]
          /\ main'.pc = "launch_wait"
      BY <2>4, <3>1 DEF LaunchSize, Goto, CallInv
    <3>3. start_pending' \in [Channels -> BOOLEAN] /\ UNCHANGED << trans, hw >>
      <4> DEFINE d1 == trans[x0].size_d1_du % 65536
      <4>1. /\ start_pending' = [start_pending EXCEPT ![c0] = @ \/ d1 # 0]
            /\ UNCHANGED << trans, hw >>
        BY <2>4 DEF LaunchSize, WriteSizes
      <4> HIDE DEF d1, c0
      <4> QED BY <4>1 DEF CallInv
    <3>4. regs' = [c \in Channels |-> regs'[c]]
      <4> DEFINE h == [regs EXCEPT ![c0].size_d1 = trans[x0].size_d1_du % 65536]
                 v == IF trans[x0].dim = Dim2D THEN trans[x0].size_d2_du % 65536
                                               ELSE h[c0].size_d2
      <4>1. h = [c \in Channels |-> h[c]]
        <5>1. regs = [c \in Channels |-> regs[c]]
          BY DEF CallInv
        <5> DEFINE d1 == trans[x0].size_d1_du % 65536
        <5>2. h = [regs EXCEPT ![c0].size_d1 = d1]
          OBVIOUS
        <5> HIDE DEF h, v, d1, c0
        <5> QED BY ONLY <5>1, <5>2
      <4>2. regs' = [h EXCEPT ![c0].size_d2 = v]
        BY <2>4 DEF LaunchSize, WriteSizes
      <4> HIDE DEF h, v
      <4> QED BY <4>1, <4>2
    <3> QED BY <3>2, <3>3, <3>4 DEF CallInv, LoadSteps, LaunchSteps
  <2>5. ASSUME NEW x \in Trans, NEW check \in BOOLEAN, ValidateCall(x, FALSE, check)
        PROVE  CallInv'
    <3> DEFINE s == dma_validate_transaction(trans[x], FALSE, check)
    <3>1. /\ main = AtRest /\ trans' = [trans EXCEPT ![x] = s]
          /\ UNCHANGED << main, regs, hw, start_pending >>
      BY <2>5 DEF ValidateCall, Validate
    <3>2. Keeps(trans[x], s)
      BY ValidateIs DEF CallInv
    <3> HIDE DEF s
    <3>3. /\ trans' = [y \in Trans |-> trans'[y]]
          /\ \A y \in Trans : IsObject(trans'[y]) /\ trans'[y].channel \in Channels
      BY <3>1, <3>2 DEF CallInv, Keeps, UserFieldNames
    <3> QED BY <3>1, <3>3 DEF CallInv, AtRest, LoadSteps, LaunchSteps
  <2>6. ASSUME NEW c \in Channels, dma_stop_circular(c)
        PROVE  CallInv'
    <3>1. /\ regs' = [regs EXCEPT ![c].mode = "SINGLE"]
          /\ UNCHANGED << trans, main, hw, start_pending >>
      BY <2>6 DEF dma_stop_circular
    <3>2. regs' = [d \in Channels |-> regs'[d]]
      BY <3>1 DEF CallInv
    <3> QED BY <3>1, <3>2, CallGoesOn
  <2>7. ASSUME NEW c \in Channels, ChannelStarts(c) \/ ChannelEnds(c)
        PROVE  CallInv'
    <3>1. UNCHANGED << trans, regs, main >>
      BY <2>7 DEF ChannelStarts, ChannelEnds
    <3>2. /\ hw' \in [Channels -> {"READY", "RUNNING"}]
          /\ start_pending' \in [Channels -> BOOLEAN]
      BY <2>7 DEF CallInv, ChannelStarts, ChannelEnds
    <3>3. \A d \in Channels : dma_is_ready(d) => dma_is_ready(d)'
      BY <2>7 DEF CallInv, ChannelStarts, ChannelEnds, dma_is_ready
    <3>4. main.pc \in LoadSteps \cup LaunchSteps => c0 \in Channels /\ c0' = c0
      BY <3>1 DEF CallInv, AtRest, LoadSteps, LaunchSteps, c0, x0
    <3> HIDE DEF c0, dma_is_ready
    <3> QED BY <3>1, <3>2, <3>3, <3>4 DEF CallInv
  <2>8. CASE \/ Wfi \/ IsrReturn \/ FicLatches \/ UNCHANGED halVars
             \/ \E k \in Kinds : TakeInterrupt(k) \/ \E c \in Channels : Visit(k, c)
             \/ \E c \in Channels : WindowEnds(c)
    <3>1. UNCHANGED << trans, regs, hw, start_pending, main >>
      BY <2>8 DEF Wfi, IsrReturn, FicLatches, halVars, TakeInterrupt, Visit, WindowEnds
    <3>2. regs' = [c \in Channels |-> regs'[c]]
      BY <3>1 DEF CallInv
    <3> QED BY <3>1, <3>2, CallGoesOn
  <2> QED BY <2>1, <2>2, <2>3, <2>4, <2>5, <2>6, <2>7, <2>8
          DEF HalNext, Begins, Proceeds, Handles
<1> QED BY <1>1, <1>2, PTL DEF HalSpec

(* What a step may do to the registers of a busy channel.                  *)
LEMMA StepFreezes ==
    ASSUME CallInv, [HalNext]_halVars, NEW c \in Channels, Busy(c)
    PROVE  regs'[c] \in {regs[c], [regs[c] EXCEPT !.mode = "SINGLE"]}
<1>1. regs = [d \in Channels |-> regs[d]]
  BY DEF CallInv
<1>2. ASSUME LoadRegisters \/ LaunchSize
      PROVE  regs'[c] = regs[c]
  <2>1. c0 # c
    BY <1>2 DEF CallInv, Busy, LoadRegisters, LaunchSize, LoadSteps, LaunchSteps
  <2> HIDE DEF c0
  <2> QED BY <1>1, <1>2, <2>1 DEF LoadRegisters, LaunchSize, WriteSizes
<1>3. ASSUME NEW d \in Channels, dma_stop_circular(d)
      PROVE  regs'[c] \in {regs[c], [regs[c] EXCEPT !.mode = "SINGLE"]}
  BY <1>1, <1>3 DEF dma_stop_circular
<1>4. ASSUME ~(LoadRegisters \/ LaunchSize), \A d \in Channels : ~dma_stop_circular(d)
      PROVE  UNCHANGED regs
  BY <1>4
  DEF HalNext, Begins, Proceeds, Handles, halVars, regVars, LoadCheck, LaunchCheck,
      ValidateCall, LoadClaim, LoadDisable, LoadMask, LoadUnmask, LoadEnable, LaunchFlag,
      LaunchReturn, Wfi, TakeInterrupt, Visit, IsrReturn, FicLatches, ChannelStarts,
      WindowEnds, ChannelEnds
<1> QED BY <1>2, <1>3, <1>4

-----------------------------------------------------------------------------
(* A busy channel performs the transaction it was launched for, as the     *)
(* application described it, whatever was loaded, refused, validated or    *)
(* stopped before and since - if sizes, paddings and increments in bytes   *)
(* fit their fields, no object is in address mode, and no row without      *)
(* paddings shares its channel with objects that have some.                *)
THEOREM AskedSafety ==
    ASSUME NoAddressMode, SizesFit, FieldsFit, FramesAgree
    PROVE  HalSpec => []RunsAsAsked
<1>1. HalInv => RunsAsAsked
  BY DEF HalInv, Works, RunsAsAsked
<1> QED BY <1>1, HalInvariant, PTL

(* Only dma_stop_circular touches the registers of a busy channel, though  *)
(* the check that it is ready and the writes are many accesses apart.      *)
THEOREM FrozenSafety == HalSpec => FrozenWhileBusy
<1>1. CallInv /\ [HalNext]_halVars
        => [\A c \in Channels :
              Busy(c) => regs'[c] \in {regs[c], [regs[c] EXCEPT !.mode = "SINGLE"]}]_halVars
  BY StepFreezes
<1> QED BY <1>1, CallInvariant, PTL DEF HalSpec, FrozenWhileBusy
=============================================================================
