------------------------------- MODULE Schema -------------------------------
(***************************************************************************)
(* The fields of a document and what the YaffleSchema macro derives from     *)
(* their attributes: where each is read from, and how Quickwit indexes it    *)
(* (schema.rs, yaffle-macros, quickwit.rs).                                  *)
(*                                                                          *)
(* A field has the Rust type of its declaration and, beside it, the storage  *)
(* type of its attribute; nothing but care makes the two agree.              *)
(***************************************************************************)
CONSTANT None

ASSUME SchemaAssumption == None \notin {"raw", "position", "microseconds"}

(* f @@ g of the module TLC. *)
Over(f, g) == [x \in DOMAIN f \cup DOMAIN g |-> IF x \in DOMAIN f THEN f[x] ELSE g[x]]

Field(type, storage_type, from_gelf) ==
  [type |-> type, storage_type |-> storage_type, from_gelf |-> from_gelf]

(* The keys of a GELF message, in the order of the attribute. *)
Src(key) == [key |-> key, conversion |-> "none"]
SrcVia(key, conversion) == [key |-> key, conversion |-> conversion]
Plainly(keys) == [i \in DOMAIN keys |-> Src(keys[i])]

(* The common kinds of fields. *)
Str(keys) == Field("String", "string", Plainly(keys))
Text(keys) == Field("String", "text", Plainly(keys))
Uint(keys) == Field("u64", "u64", Plainly(keys))

(* The message itself and the fields a journal client sets. *)
MessageFields ==
  [ source_timestamp |-> Field("u64", "fast_timestamp",
        <<SrcVia("timestamp", "float_sec_to_usec"),
          Src("_SOURCE_REALTIME_TIMESTAMP"),
          Src("__SOURCE_REALTIME_TIMESTAMP")>>),
    hostname |-> Str(<<"host", "_HOSTNAME">>),
    message |-> Text(<<"short_message">>),
    priority |-> Uint(<<"level", "_PRIORITY">>),
    full_message |-> Text(<<"full_message">>),
    message_id |-> Str(<<"_MESSAGE_ID">>),
    code_file |-> Text(<<"file", "_CODE_FILE">>),
    code_line |-> Uint(<<"line", "_CODE_LINE">>),
    code_func |-> Str(<<"_CODE_FUNC", "_function">>),
    errno |-> Field("i64", "i64", Plainly(<<"_ERRNO">>)),
    invocation_id |-> Str(<<"_INVOCATION_ID">>),
    user_invocation_id |-> Str(<<"_USER_INVOCATION_ID">>),
    facility |-> Str(<<"facility", "_facility", "_SYSLOG_FACILITY">>),
    syslog_identifier |-> Str(<<"_SYSLOG_IDENTIFIER">>),
    syslog_pid |-> Uint(<<"_SYSLOG_PID">>),
    syslog_timestamp |-> Field("u64", "timestamp",
        <<SrcVia("_SYSLOG_TIMESTAMP", "syslog_timestamp")>>),
    pid |-> Uint(<<"_PID", "__PID">>),
    uid |-> Uint(<<"_UID", "__UID">>),
    gid |-> Uint(<<"_GID", "__GID">>) ]

(* Fields that journald knows of the sending process. *)
ProcessFields ==
  [ comm |-> Str(<<"_COMM", "__COMM">>),
    exe |-> Str(<<"_EXE", "__EXE">>),
    cmdline |-> Text(<<"_CMDLINE", "__CMDLINE">>),
    cap_effective |-> Field("u64", "u64",
        <<SrcVia("_CAP_EFFECTIVE", "hex_to_uint"),
          SrcVia("__CAP_EFFECTIVE", "hex_to_uint")>>),
    audit_session |-> Uint(<<"_AUDIT_SESSION", "__AUDIT_SESSION">>),
    audit_loginuid |-> Uint(<<"_AUDIT_LOGINUID", "__AUDIT_LOGINUID">>),
    systemd_cgroup |-> Text(<<"_SYSTEMD_CGROUP", "__SYSTEMD_CGROUP">>),
    systemd_slice |-> Text(<<"_SYSTEMD_SLICE", "__SYSTEMD_SLICE">>),
    systemd_unit |-> Text(<<"_SYSTEMD_UNIT", "__SYSTEMD_UNIT">>),
    systemd_user_unit |-> Text(<<"_SYSTEMD_USER_UNIT", "__SYSTEMD_USER_UNIT">>),
    systemd_user_slice |-> Text(<<"_SYSTEMD_USER_SLICE", "__SYSTEMD_USER_SLICE">>),
    systemd_session |-> Str(<<"_SYSTEMD_SESSION", "__SYSTEMD_SESSION">>),
    systemd_owner_uid |-> Uint(<<"_SYSTEMD_OWNER_UID", "__SYSTEMD_OWNER_UID">>),
    selinux_context |-> Str(<<"_SELINUX_CONTEXT", "__SELINUX_CONTEXT">>),
    boot_id |-> Str(<<"_BOOT_ID", "__BOOT_ID">>),
    machine_id |-> Str(<<"_MACHINE_ID", "__MACHINE_ID">>),
    systemd_invocation_id |-> Str(<<"_SYSTEMD_INVOCATION_ID", "__SYSTEMD_INVOCATION_ID">>),
    transport |-> Str(<<"_TRANSPORT", "__TRANSPORT">>),
    stream_id |-> Str(<<"_STREAM_ID", "__STREAM_ID">>) ]

(* The kernel, core dumps, the process a message is about, reception. *)
ObjectFields ==
  [ line_break |-> Str(<<"_LINE_BREAK">>),
    namespace |-> Str(<<"_NAMESPACE">>),
    kernel_device |-> Text(<<"_KERNEL_DEVICE">>),
    kernel_subsystem |-> Str(<<"_KERNEL_SUBSYSTEM">>),
    udev_sysname |-> Text(<<"_UDEV_SYSNAME">>),
    udev_devnode |-> Text(<<"_UDEV_DEVNODE">>),
    udev_devlink |-> Text(<<"_UDEV_DEVLINK">>),
    coredump_unit |-> Text(<<"_COREDUMP_UNIT">>),
    coredump_user_unit |-> Text(<<"_COREDUMP_USER_UNIT">>),
    object_pid |-> Uint(<<"_OBJECT_PID">>),
    object_uid |-> Uint(<<"_OBJECT_UID">>),
    object_gid |-> Uint(<<"_OBJECT_GID">>),
    object_comm |-> Str(<<"_OBJECT_COMM">>),
    object_exe |-> Str(<<"_OBJECT_EXE">>),
    object_cmdline |-> Text(<<"_OBJECT_CMDLINE">>),
    object_audit_session |-> Uint(<<"_OBJECT_AUDIT_SESSION">>),
    object_audit_loginuid |-> Uint(<<"_OBJECT_AUDIT_LOGINUID">>),
    object_systemd_cgroup |-> Text(<<"_OBJECT_SYSTEMD_CGROUP">>),
    object_systemd_session |-> Str(<<"_OBJECT_SYSTEMD_SESSION">>),
    object_systemd_owner_uid |-> Uint(<<"_OBJECT_SYSTEMD_OWNER_UID">>),
    object_systemd_unit |-> Text(<<"_OBJECT_SYSTEMD_UNIT">>),
    object_systemd_user_unit |-> Text(<<"_OBJECT_SYSTEMD_USER_UNIT">>),
    recv_rt_timestamp |-> Field("u64", "timestamp", Plainly(<<"___REALTIME_TIMESTAMP">>)),
    recv_mt_timestamp |-> Uint(<<"___MONOTONIC_TIMESTAMP">>) ]

DocumentFields == Over(MessageFields, Over(ProcessFields, ObjectFields))

Fields == DOMAIN MessageFields \cup DOMAIN ProcessFields \cup DOMAIN ObjectFields

FromGelfAttr == [f \in Fields |-> DocumentFields[f].from_gelf]
TypeOf(field) == DocumentFields[field].type

(* The fields that a syslog message gives, and their names in it. *)
FromSyslogAttr ==
  [ source_timestamp |-> "source_timestamp", hostname |-> "hostname", message |-> "message",
    priority |-> "priority", full_message |-> "full_message", facility |-> "facility",
    syslog_identifier |-> "identifier", syslog_pid |-> "pid" ]

(* The fields without skip_serializing_if. *)
AlwaysSerialised == {"source_timestamp", "hostname", "message"}

-----------------------------------------------------------------------------
(* The index: the mapping of a field, as create_index sends it. *)

DefaultMapping ==
  [ type |-> "", stored |-> TRUE, indexed |-> TRUE, tokenizer |-> None, record |-> None,
    fieldnorms |-> FALSE, fast |-> FALSE, input_formats |-> <<>>, precision |-> None ]

DateMapping(fast) ==
  [DefaultMapping EXCEPT !.type = "datetime", !.input_formats = <<"unix_timestamp">>,
                         !.fast = fast, !.precision = "microseconds"]

(* Mutant: one mapping for all integers. *)
UnsignedMapping(type) == [DefaultMapping EXCEPT !.type = "u64"]

IntegerMapping(type) == [DefaultMapping EXCEPT !.type = type]

FieldMapping(storage_type) ==
  CASE storage_type = "string" -> [DefaultMapping EXCEPT !.type = "text", !.tokenizer = "raw"]
    [] storage_type = "text" -> [DefaultMapping EXCEPT !.type = "text", !.record = "position"]
    [] storage_type \in {"u64", "i64"} -> IntegerMapping(storage_type)
    [] storage_type = "timestamp" -> DateMapping(FALSE)
    [] storage_type = "fast_timestamp" -> DateMapping(TRUE)

(* skip_serializing_if: the entries left out of the JSON. *)
Skipped(entry, v) ==
  CASE entry \in {"stored", "indexed"} -> v
    [] entry \in {"fieldnorms", "fast"} -> ~v
    [] entry = "input_formats" -> v = <<>>
    [] entry \in {"tokenizer", "record", "precision"} -> v = None
    [] OTHER -> FALSE

Serialised(mapping) ==
  [entry \in {e \in DOMAIN mapping : ~Skipped(e, mapping[e])} |-> mapping[entry]]

(* External: what Quickwit takes an entry for that the JSON does not have.   *)
QuickwitDefault ==
  [ stored |-> TRUE, indexed |-> TRUE, tokenizer |-> "default", record |-> "basic",
    fieldnorms |-> FALSE, fast |-> FALSE, input_formats |-> <<"rfc3339", "unix_timestamp">>,
    precision |-> "seconds" ]

(* The index that get_or_create_index creates. *)
Index ==
  [ field_mappings |->
      [f \in Fields |->
         Over(Serialised(FieldMapping(DocumentFields[f].storage_type)), QuickwitDefault)],
    timestamp_field |-> "source_timestamp",
    default_search_fields |-> {"message", "full_message"} ]
=============================================================================
