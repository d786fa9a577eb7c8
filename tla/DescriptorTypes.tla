--------------------------- MODULE DescriptorTypes ---------------------------
(***************************************************************************)
(* The crate's own declarations about descriptor.proto: the structs that   *)
(* descriptors are kept in (descriptor/types.rs), their conversions from    *)
(* and to the structs of prost-types, and the numbers of the fields that    *)
(* paths into a file consist of (descriptor/tag.rs).                        *)
(***************************************************************************)
EXTENDS Integers, Sequences, SequencesExt

(* A struct: its members with the type and the tag of their #[prost(..)].   *)
Member(label, name, tag, type) == [label |-> label, name |-> name, number |-> tag, type |-> type]
Optional(name, tag, type) == Member("optional", name, tag, type)
Repeated(name, tag, type) == Member("repeated", name, tag, type)

FileDescriptorSet == <<Repeated("file", 1, "FileDescriptorProto")>>

FileDescriptorProto == <<
  Optional("name", 1, "string"), Optional("package", 2, "string"), Repeated("dependency", 3, "string"),
  Repeated("public_dependency", 10, "int32"), Repeated("weak_dependency", 11, "int32"),
  Repeated("message_type", 4, "DescriptorProto"), Repeated("enum_type", 5, "EnumDescriptorProto"),
  Repeated("service", 6, "ServiceDescriptorProto"), Repeated("extension", 7, "FieldDescriptorProto"),
  Optional("options", 8, "FileOptions"), Optional("source_code_info", 9, "SourceCodeInfo"),
  Optional("syntax", 12, "string")>>

DescriptorProto == <<
  Optional("name", 1, "string"), Repeated("field", 2, "FieldDescriptorProto"),
  Repeated("extension", 6, "FieldDescriptorProto"), Repeated("nested_type", 3, "DescriptorProto"),
  Repeated("enum_type", 4, "EnumDescriptorProto"), Repeated("extension_range", 5, "ExtensionRange"),
  Repeated("oneof_decl", 8, "OneofDescriptorProto"), Optional("options", 7, "MessageOptions"),
  Repeated("reserved_range", 9, "ReservedRange"), Repeated("reserved_name", 10, "string")>>

ExtensionRange == <<
  Optional("start", 1, "int32"), Optional("end", 2, "int32"), Optional("options", 3, "ExtensionRangeOptions")>>

FieldDescriptorProto == <<
  Optional("name", 1, "string"), Optional("number", 3, "int32"), Optional("label", 4, "Label"),
  Optional("type", 5, "Type"), Optional("type_name", 6, "string"), Optional("extendee", 2, "string"),
  Optional("default_value", 7, "string"), Optional("oneof_index", 9, "int32"), Optional("json_name", 10, "string"),
  Optional("options", 8, "FieldOptions"), Optional("proto3_optional", 17, "bool")>>

OneofDescriptorProto == <<Optional("name", 1, "string"), Optional("options", 2, "OneofOptions")>>

EnumDescriptorProto == <<
  Optional("name", 1, "string"), Repeated("value", 2, "EnumValueDescriptorProto"),
  Optional("options", 3, "EnumOptions"), Repeated("reserved_range", 4, "EnumReservedRange"),
  Repeated("reserved_name", 5, "string")>>

EnumValueDescriptorProto == <<
  Optional("name", 1, "string"), Optional("number", 2, "int32"), Optional("options", 3, "EnumValueOptions")>>

ServiceDescriptorProto == <<
  Optional("name", 1, "string"), Repeated("method", 2, "MethodDescriptorProto"),
  Optional("options", 3, "ServiceOptions")>>

MethodDescriptorProto == <<
  Optional("name", 1, "string"), Optional("input_type", 2, "string"), Optional("output_type", 3, "string"),
  Optional("options", 4, "MethodOptions"), Optional("client_streaming", 5, "bool"),
  Optional("server_streaming", 6, "bool")>>

\* The structs, with the message of descriptor.proto that each stands for.
Structs == {
  << <<"FileDescriptorSet">>, FileDescriptorSet >>, << <<"FileDescriptorProto">>, FileDescriptorProto >>,
  << <<"DescriptorProto">>, DescriptorProto >>, << <<"DescriptorProto", "ExtensionRange">>, ExtensionRange >>,
  << <<"FieldDescriptorProto">>, FieldDescriptorProto >>, << <<"OneofDescriptorProto">>, OneofDescriptorProto >>,
  << <<"EnumDescriptorProto">>, EnumDescriptorProto >>,
  << <<"EnumValueDescriptorProto">>, EnumValueDescriptorProto >>,
  << <<"ServiceDescriptorProto">>, ServiceDescriptorProto >>,
  << <<"MethodDescriptorProto">>, MethodDescriptorProto >> }

-----------------------------------------------------------------------------
(* Conversions.  Elements are those of WellKnown: of their options a packed *)
(* field's and a map entry's flags are kept, which the structs hold in two  *)
(* forms (Options<T>), the given bytes and the decoded value.               *)

Each(Convert(_), sequence) == [i \in DOMAIN sequence |-> Convert(sequence[i])]

FromOptions(options) == [encoded |-> options, value |-> options]
ToOptions(options) == options.value

FromField(field) == [field EXCEPT !.packed = FromOptions(@)]
ToField(field) == [field EXCEPT !.packed = ToOptions(@)]

RECURSIVE FromMessage(_)
FromMessage(message) ==
  [message EXCEPT !.fields = Each(FromField, @), !.extensions = Each(FromField, @),
                  !.messages = Each(FromMessage, @), !.mapEntry = FromOptions(@)]

RECURSIVE ToMessage(_)
ToMessage(message) ==
  [message EXCEPT !.fields = Each(ToField, @), !.extensions = Each(ToField, @),
                  !.messages = Each(ToMessage, @), !.mapEntry = ToOptions(@)]

FromFile(file) == [file EXCEPT !.messages = Each(FromMessage, @), !.extensions = Each(FromField, @)]
ToFile(file) == [file EXCEPT !.messages = Each(ToMessage, @), !.extensions = Each(ToField, @)]

-----------------------------------------------------------------------------
(* Tags: one record per module of tag.rs, its constants in lower case.      *)

TagFileDescriptorSet == [file |-> 1]

TagFile == [
  package |-> 2, dependency |-> 3, public_dependency |-> 10, weak_dependency |-> 11, message_type |-> 4,
  enum_type |-> 5, service |-> 6, extension |-> 7, options |-> 8, syntax |-> 12]

\* (FILE_UNINTERPRETED_OPTION is the last of them.)
TagFileOptions == [
  java_package |-> 1, java_outer_classname |-> 8, java_multiple_files |-> 10,
  java_generate_equals_and_hash |-> 20, java_string_check_utf8 |-> 27, optimize_for |-> 9, go_package |-> 11,
  cc_generic_services |-> 16, java_generic_services |-> 17, py_generic_services |-> 18,
  php_generic_services |-> 42, deprecated |-> 23, cc_enable_arenas |-> 31, objc_class_prefix |-> 36,
  csharp_namespace |-> 37, swift_prefix |-> 39, php_class_prefix |-> 40, php_namespace |-> 41,
  php_metadata_namespace |-> 44, ruby_package |-> 45, uninterpreted_option |-> 999]

\* Fault: nested messages and nested enums are swapped.
TagMessageSwapped == [
  name |-> 1, field |-> 2, extension |-> 6, nested_type |-> 4, enum_type |-> 3, extension_range |-> 5,
  options |-> 7, oneof_decl |-> 8, reserved_range |-> 9, reserved_name |-> 10]

TagMessage == [
  name |-> 1, field |-> 2, extension |-> 6, nested_type |-> 3, enum_type |-> 4, extension_range |-> 5,
  options |-> 7, oneof_decl |-> 8, reserved_range |-> 9, reserved_name |-> 10]

TagExtensionRange == [start |-> 1, end |-> 2, options |-> 3]

TagReservedRange == [start |-> 1, end |-> 2]

TagMessageOptions == [
  message_set_wire_format |-> 1, no_standard_descriptor_accessor |-> 2, deprecated |-> 3, map_entry |-> 7,
  uninterpreted_option |-> 999]

TagField == [
  name |-> 1, extendee |-> 2, number |-> 3, label |-> 4, type |-> 5, type_name |-> 6, default_value |-> 7,
  json_name |-> 10, options |-> 8]

TagFieldOptions == [
  ctype |-> 1, packed |-> 2, jstype |-> 6, lazy |-> 5, deprecated |-> 3, weak |-> 10, uninterpreted_option |-> 999]

TagOneof == [name |-> 1, options |-> 2]

TagEnum == [name |-> 1, value |-> 2, options |-> 3, reserved_range |-> 4, reserved_name |-> 5]

TagEnumReservedRange == [start |-> 1, end |-> 2]

TagEnumOptions == [allow_alias |-> 2, deprecated |-> 3, uninterpreted_option |-> 999]

TagEnumValue == [name |-> 1, number |-> 2, options |-> 3]

TagEnumValueOptions == [deprecated |-> 1, uninterpreted_option |-> 999]

TagService == [name |-> 1, method |-> 2, options |-> 3]

TagServiceOptions == [deprecated |-> 33, uninterpreted_option |-> 999]

TagMethod == [
  name |-> 1, input_type |-> 2, output_type |-> 3, options |-> 4, client_streaming |-> 5, server_streaming |-> 6]

TagMethodOptions == [deprecated |-> 33, idempotency_level |-> 34, uninterpreted_option |-> 999]

TagModules == {
  << <<"FileDescriptorSet">>, TagFileDescriptorSet >>, << <<"FileDescriptorProto">>, TagFile >>,
  << <<"FileOptions">>, TagFileOptions >>, << <<"DescriptorProto">>, TagMessage >>,
  << <<"DescriptorProto", "ExtensionRange">>, TagExtensionRange >>,
  << <<"DescriptorProto", "ReservedRange">>, TagReservedRange >>,
  << <<"MessageOptions">>, TagMessageOptions >>, << <<"FieldDescriptorProto">>, TagField >>,
  << <<"FieldOptions">>, TagFieldOptions >>, << <<"OneofDescriptorProto">>, TagOneof >>,
  << <<"EnumDescriptorProto">>, TagEnum >>,
  << <<"EnumDescriptorProto", "EnumReservedRange">>, TagEnumReservedRange >>,
  << <<"EnumOptions">>, TagEnumOptions >>, << <<"EnumValueDescriptorProto">>, TagEnumValue >>,
  << <<"EnumValueOptions">>, TagEnumValueOptions >>, << <<"ServiceDescriptorProto">>, TagService >>,
  << <<"ServiceOptions">>, TagServiceOptions >>, << <<"MethodDescriptorProto">>, TagMethod >>,
  << <<"MethodOptions">>, TagMethodOptions >> }
=============================================================================
