------------------------------ MODULE FaultNvs ------------------------------
(***************************************************************************)
(* The persisted fault record (src/src/nvs/fault_nvs.c) on top of the      *)
(* ESP-IDF key/value flash store.                                          *)
(*                                                                         *)
(* A store has two copies of the two keys: `live`, what nvs_get_u8 returns *)
(* in this session, and `flash`, what is certain to be there after a power *)
(* loss.  nvs_set_u8 changes the first, nvs_commit copies it over the      *)
(* second.  An uncommitted key may or may not have reached the flash when  *)
(* power is lost.  Every call may fail, and fault_nvs.c returns at the     *)
(* first one that does: a write therefore has four outcomes, a clear       *)
(* three.                                                                  *)
(***************************************************************************)
EXTENDS Naturals

PersistedCodes == {"MOTOR_STALL", "SPOF", "COMM_TIMEOUT"}

\* The two keys; "ABSENT" is ESP_ERR_NVS_NOT_FOUND.
Record == [fault_state : {"ABSENT", "CLEAR", "ACTIVE"},
           fault_code  : PersistedCodes \cup {"ABSENT"}]

Store == [live : Record, flash : Record]

\* What an operation leaves behind and returns.
Outcome == [nvs : Store, ret : {"ESP_OK", "ESP_FAIL"}]

BlankRecord == [fault_state |-> "ABSENT", fault_code |-> "ABSENT"]

BlankStore == [live |-> BlankRecord, flash |-> BlankRecord]

-----------------------------------------------------------------------------
(* The store under fault_nvs.c: ESP-IDF, outside the repository.           *)

nvs_set(store, record) == [live |-> record, flash |-> store.flash]

nvs_commit(store) == [live |-> store.live, flash |-> store.live]

\* What a boot may find after power was lost: each key as committed or, when
\* a later value was only set, perhaps that value.
Survivors(store) ==
  { [live |-> r, flash |-> r] : r \in
      { [fault_state |-> a, fault_code |-> c] :
          a \in {store.live.fault_state, store.flash.fault_state},
          c \in {store.live.fault_code, store.flash.fault_code} } }

Ok(store) == [nvs |-> store, ret |-> "ESP_OK"]

Fail(store) == [nvs |-> store, ret |-> "ESP_FAIL"]

-----------------------------------------------------------------------------
(* fault_nvs.c.                                                            *)

\* The two nvs_set_u8 calls of a write, in the order of the code.
ActiveSet(store) ==
  nvs_set(store, [fault_state |-> "ACTIVE", fault_code |-> store.live.fault_code])

CodeSet(store, code) ==
  nvs_set(store, [fault_state |-> store.live.fault_state, fault_code |-> code])

ClearedSet(store) ==
  nvs_set(store, [fault_state |-> "CLEAR", fault_code |-> store.live.fault_code])

\* Mutant: the write returns success without nvs_commit.
WriteUncommitted(store, code) ==
  { Ok(CodeSet(ActiveSet(store), code)) }

fault_nvs_write(store, code) ==
  LET active == ActiveSet(store)
      coded  == CodeSet(active, code)
  IN  { Fail(store), Fail(active), Fail(coded), Ok(nvs_commit(coded)) }

fault_nvs_clear(store) ==
  LET cleared == ClearedSet(store)
  IN  { Fail(store), Fail(cleared), Ok(nvs_commit(cleared)) }

\* The code a boot starts from.  A flag without a code reads as NVS_BOOT.  A
\* failing read aborts the boot (ESP_ERROR_CHECK), which is a boot not made.
fault_nvs_read(store) ==
  CASE store.live.fault_state # "ACTIVE" -> "NONE"
    [] store.live.fault_state = "ACTIVE" /\ store.live.fault_code = "ABSENT" -> "NVS_BOOT"
    [] OTHER -> store.live.fault_code
=============================================================================
