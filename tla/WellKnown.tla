------------------------------ MODULE WellKnown ------------------------------
(***************************************************************************)
(* The descriptors of the well-known types, which the crate carries with   *)
(* it (reflect/wkt.rs), and the types that have an implementation of       *)
(* ReflectMessage.  Every JSON name is the one derived from the name of its *)
(* field; of the options those are kept that a build reads.                *)
(***************************************************************************)
EXTENDS Integers, Sequences

Google == <<"google", "protobuf">>

Scalar(kind) == [kind |-> kind, of |-> << >>]
Text == Scalar("string")
Octets == Scalar("bytes")
Bool == Scalar("bool")
Double == Scalar("double")
Float == Scalar("float")
Int32 == Scalar("int32")
Int64 == Scalar("int64")
UInt32 == Scalar("uint32")
UInt64 == Scalar("uint64")
\* A type is named from the outermost scope: its name starts with a dot, here an
\* empty part.
Msg(path) == [kind |-> "message", of |-> <<"">> \o Google \o path]
Enumeration(path) == [kind |-> "enum", of |-> <<"">> \o Google \o path]

\* Oneofs are numbered from 0, as in the descriptor; -1 stands for none.
Labelled(label, name, number, type) ==
  [name |-> name, number |-> number, label |-> label, type |-> type, default |-> "", oneof |-> -1, packed |-> FALSE]
One(name, number, type) == Labelled("optional", name, number, type)
Many(name, number, type) == Labelled("repeated", name, number, type)
Needed(name, number, type) == Labelled("required", name, number, type)
Preset(field, default) == [field EXCEPT !.default = default]
Flag(name, number) == Preset(One(name, number, Bool), "false")
Packed(field) == [field EXCEPT !.packed = TRUE]
Within(oneof, field) == [field EXCEPT !.oneof = oneof]

Numbered(name, names, numbers) ==
  [name |-> name, values |-> [i \in DOMAIN names |-> [name |-> names[i], number |-> numbers[i]]]]
Values(name, first, names) == Numbered(name, names, [i \in DOMAIN names |-> first + i - 1])

\* "taken": the ranges of numbers for extensions, and the reserved ones.
ToTheEnd == <<1000, 536870912>>
Message(name, fields) ==
  [name |-> name, fields |-> fields, oneofs |-> << >>, messages |-> << >>, enums |-> << >>, extensions |-> << >>,
   mapEntry |-> FALSE, taken |-> << >>]

ProtoFile(name, package, syntax, deps, messages, enums) ==
  [name |-> name, package |-> package, syntax |-> syntax, deps |-> deps, messages |-> messages, enums |-> enums,
   services |-> << >>, extensions |-> << >>]

\* Fault: both fields of a timestamp have one number.
TimestampTwice == Message("Timestamp", <<One("seconds", 1, Int64), One("nanos", 1, Int32)>>)

-----------------------------------------------------------------------------
\* google/protobuf/any.proto
Any == Message("Any", <<One("type_url", 1, Text), One("value", 2, Octets)>>)
AnyFile ==
  ProtoFile("google/protobuf/any.proto", Google, "proto3", << >>,
       <<Any>>, << >>)

-----------------------------------------------------------------------------
\* google/protobuf/source_context.proto
SourceContext == Message("SourceContext", <<One("file_name", 1, Text)>>)
SourceContextFile ==
  ProtoFile("google/protobuf/source_context.proto", Google, "proto3", << >>,
       <<SourceContext>>, << >>)

-----------------------------------------------------------------------------
\* google/protobuf/type.proto
Syntax == Values("Syntax", 0, <<"SYNTAX_PROTO2", "SYNTAX_PROTO3", "SYNTAX_EDITIONS">>)
Type ==
  Message("Type", <<
      One("name", 1, Text), Many("fields", 2, Msg(<<"Field">>)), Many("oneofs", 3, Text),
      Many("options", 4, Msg(<<"Option">>)), One("source_context", 5, Msg(<<"SourceContext">>)),
      One("syntax", 6, Enumeration(<<"Syntax">>)), One("edition", 7, Text)>>)
Kind ==
  Values("Kind", 0, <<"TYPE_UNKNOWN", "TYPE_DOUBLE", "TYPE_FLOAT", "TYPE_INT64", "TYPE_UINT64", "TYPE_INT32",
    "TYPE_FIXED64", "TYPE_FIXED32", "TYPE_BOOL", "TYPE_STRING", "TYPE_GROUP", "TYPE_MESSAGE", "TYPE_BYTES",
    "TYPE_UINT32", "TYPE_ENUM", "TYPE_SFIXED32", "TYPE_SFIXED64", "TYPE_SINT32", "TYPE_SINT64">>)
Cardinality ==
  Values("Cardinality", 0, <<"CARDINALITY_UNKNOWN", "CARDINALITY_OPTIONAL", "CARDINALITY_REQUIRED",
    "CARDINALITY_REPEATED">>)
Field ==
  [Message("Field", <<
      One("kind", 1, Enumeration(<<"Field", "Kind">>)),
      One("cardinality", 2, Enumeration(<<"Field", "Cardinality">>)), One("number", 3, Int32),
      One("name", 4, Text), One("type_url", 6, Text), One("oneof_index", 7, Int32), One("packed", 8, Bool),
      Many("options", 9, Msg(<<"Option">>)), One("json_name", 10, Text), One("default_value", 11, Text)>>) EXCEPT
      !.enums = <<Kind, Cardinality>>]
Enum ==
  Message("Enum", <<
      One("name", 1, Text), Many("enumvalue", 2, Msg(<<"EnumValue">>)),
      Many("options", 3, Msg(<<"Option">>)), One("source_context", 4, Msg(<<"SourceContext">>)),
      One("syntax", 5, Enumeration(<<"Syntax">>)), One("edition", 6, Text)>>)
EnumValue ==
  Message("EnumValue", <<
      One("name", 1, Text), One("number", 2, Int32), Many("options", 3, Msg(<<"Option">>))>>)
Option == Message("Option", <<One("name", 1, Text), One("value", 2, Msg(<<"Any">>))>>)
TypeFile ==
  ProtoFile("google/protobuf/type.proto", Google, "proto3", <<"google/protobuf/any.proto", "google/protobuf/source_context.proto">>,
       <<Type, Field, Enum, EnumValue, Option>>, <<Syntax>>)

-----------------------------------------------------------------------------
\* google/protobuf/api.proto
Api ==
  Message("Api", <<
      One("name", 1, Text), Many("methods", 2, Msg(<<"Method">>)), Many("options", 3, Msg(<<"Option">>)),
      One("version", 4, Text), One("source_context", 5, Msg(<<"SourceContext">>)),
      Many("mixins", 6, Msg(<<"Mixin">>)), One("syntax", 7, Enumeration(<<"Syntax">>))>>)
Method ==
  Message("Method", <<
      One("name", 1, Text), One("request_type_url", 2, Text), One("request_streaming", 3, Bool),
      One("response_type_url", 4, Text), One("response_streaming", 5, Bool),
      Many("options", 6, Msg(<<"Option">>)), One("syntax", 7, Enumeration(<<"Syntax">>))>>)
Mixin == Message("Mixin", <<One("name", 1, Text), One("root", 2, Text)>>)
ApiFile ==
  ProtoFile("google/protobuf/api.proto", Google, "proto3", <<"google/protobuf/source_context.proto", "google/protobuf/type.proto">>,
       <<Api, Method, Mixin>>, << >>)

-----------------------------------------------------------------------------
\* google/protobuf/descriptor.proto
Edition ==
  Numbered("Edition", <<"EDITION_UNKNOWN", "EDITION_PROTO2", "EDITION_PROTO3", "EDITION_2023",
    "EDITION_1_TEST_ONLY", "EDITION_2_TEST_ONLY", "EDITION_99997_TEST_ONLY", "EDITION_99998_TEST_ONLY",
    "EDITION_99999_TEST_ONLY">>, <<0, 998, 999, 1000, 1, 2, 99997, 99998, 99999>>)
FileDescriptorSet == Message("FileDescriptorSet", <<Many("file", 1, Msg(<<"FileDescriptorProto">>))>>)
FileDescriptorProto ==
  Message("FileDescriptorProto", <<
      One("name", 1, Text), One("package", 2, Text), Many("dependency", 3, Text),
      Many("public_dependency", 10, Int32), Many("weak_dependency", 11, Int32),
      Many("message_type", 4, Msg(<<"DescriptorProto">>)),
      Many("enum_type", 5, Msg(<<"EnumDescriptorProto">>)),
      Many("service", 6, Msg(<<"ServiceDescriptorProto">>)),
      Many("extension", 7, Msg(<<"FieldDescriptorProto">>)), One("options", 8, Msg(<<"FileOptions">>)),
      One("source_code_info", 9, Msg(<<"SourceCodeInfo">>)), One("syntax", 12, Text),
      One("edition", 14, Enumeration(<<"Edition">>))>>)
ExtensionRange ==
  Message("ExtensionRange", <<
      One("start", 1, Int32), One("end", 2, Int32), One("options", 3, Msg(<<"ExtensionRangeOptions">>))>>)
ReservedRange == Message("ReservedRange", <<One("start", 1, Int32), One("end", 2, Int32)>>)
DescriptorProto ==
  [Message("DescriptorProto", <<
      One("name", 1, Text), Many("field", 2, Msg(<<"FieldDescriptorProto">>)),
      Many("extension", 6, Msg(<<"FieldDescriptorProto">>)),
      Many("nested_type", 3, Msg(<<"DescriptorProto">>)),
      Many("enum_type", 4, Msg(<<"EnumDescriptorProto">>)),
      Many("extension_range", 5, Msg(<<"DescriptorProto", "ExtensionRange">>)),
      Many("oneof_decl", 8, Msg(<<"OneofDescriptorProto">>)), One("options", 7, Msg(<<"MessageOptions">>)),
      Many("reserved_range", 9, Msg(<<"DescriptorProto", "ReservedRange">>)),
      Many("reserved_name", 10, Text)>>) EXCEPT
      !.messages = <<ExtensionRange, ReservedRange>>]
Declaration ==
  [Message("Declaration", <<
      One("number", 1, Int32), One("full_name", 2, Text), One("type", 3, Text), One("reserved", 5, Bool),
      One("repeated", 6, Bool)>>) EXCEPT
      !.taken = << <<4, 5>> >>]
VerificationState == Values("VerificationState", 0, <<"DECLARATION", "UNVERIFIED">>)
ExtensionRangeOptions ==
  [Message("ExtensionRangeOptions", <<
      Many("uninterpreted_option", 999, Msg(<<"UninterpretedOption">>)),
      Many("declaration", 2, Msg(<<"ExtensionRangeOptions", "Declaration">>)),
      One("features", 50, Msg(<<"FeatureSet">>)),
      Preset(One("verification", 3, Enumeration(<<"ExtensionRangeOptions", "VerificationState">>)), "UNVERIFIED")>>) EXCEPT
      !.messages = <<Declaration>>, !.enums = <<VerificationState>>, !.taken = << ToTheEnd >>]
FieldDescriptorProtoType ==
  Values("Type", 1, <<"TYPE_DOUBLE", "TYPE_FLOAT", "TYPE_INT64", "TYPE_UINT64", "TYPE_INT32", "TYPE_FIXED64",
    "TYPE_FIXED32", "TYPE_BOOL", "TYPE_STRING", "TYPE_GROUP", "TYPE_MESSAGE", "TYPE_BYTES", "TYPE_UINT32",
    "TYPE_ENUM", "TYPE_SFIXED32", "TYPE_SFIXED64", "TYPE_SINT32", "TYPE_SINT64">>)
Label == Numbered("Label", <<"LABEL_OPTIONAL", "LABEL_REPEATED", "LABEL_REQUIRED">>, <<1, 3, 2>>)
FieldDescriptorProto ==
  [Message("FieldDescriptorProto", <<
      One("name", 1, Text), One("number", 3, Int32),
      One("label", 4, Enumeration(<<"FieldDescriptorProto", "Label">>)),
      One("type", 5, Enumeration(<<"FieldDescriptorProto", "Type">>)), One("type_name", 6, Text),
      One("extendee", 2, Text), One("default_value", 7, Text), One("oneof_index", 9, Int32),
      One("json_name", 10, Text), One("options", 8, Msg(<<"FieldOptions">>)),
      One("proto3_optional", 17, Bool)>>) EXCEPT
      !.enums = <<FieldDescriptorProtoType, Label>>]
OneofDescriptorProto ==
  Message("OneofDescriptorProto", <<One("name", 1, Text), One("options", 2, Msg(<<"OneofOptions">>))>>)
EnumReservedRange == Message("EnumReservedRange", <<One("start", 1, Int32), One("end", 2, Int32)>>)
EnumDescriptorProto ==
  [Message("EnumDescriptorProto", <<
      One("name", 1, Text), Many("value", 2, Msg(<<"EnumValueDescriptorProto">>)),
      One("options", 3, Msg(<<"EnumOptions">>)),
      Many("reserved_range", 4, Msg(<<"EnumDescriptorProto", "EnumReservedRange">>)),
      Many("reserved_name", 5, Text)>>) EXCEPT
      !.messages = <<EnumReservedRange>>]
EnumValueDescriptorProto ==
  Message("EnumValueDescriptorProto", <<
      One("name", 1, Text), One("number", 2, Int32), One("options", 3, Msg(<<"EnumValueOptions">>))>>)
ServiceDescriptorProto ==
  Message("ServiceDescriptorProto", <<
      One("name", 1, Text), Many("method", 2, Msg(<<"MethodDescriptorProto">>)),
      One("options", 3, Msg(<<"ServiceOptions">>))>>)
MethodDescriptorProto ==
  Message("MethodDescriptorProto", <<
      One("name", 1, Text), One("input_type", 2, Text), One("output_type", 3, Text),
      One("options", 4, Msg(<<"MethodOptions">>)), Flag("client_streaming", 5), Flag("server_streaming", 6)>>)
OptimizeMode == Values("OptimizeMode", 1, <<"SPEED", "CODE_SIZE", "LITE_RUNTIME">>)
FileOptions ==
  [Message("FileOptions", <<
      One("java_package", 1, Text), One("java_outer_classname", 8, Text), Flag("java_multiple_files", 10),
      One("java_generate_equals_and_hash", 20, Bool), Flag("java_string_check_utf8", 27),
      Preset(One("optimize_for", 9, Enumeration(<<"FileOptions", "OptimizeMode">>)), "SPEED"),
      One("go_package", 11, Text), Flag("cc_generic_services", 16), Flag("java_generic_services", 17),
      Flag("py_generic_services", 18), Flag("php_generic_services", 42), Flag("deprecated", 23),
      Preset(One("cc_enable_arenas", 31, Bool), "true"), One("objc_class_prefix", 36, Text),
      One("csharp_namespace", 37, Text), One("swift_prefix", 39, Text), One("php_class_prefix", 40, Text),
      One("php_namespace", 41, Text), One("php_metadata_namespace", 44, Text),
      One("ruby_package", 45, Text), One("features", 50, Msg(<<"FeatureSet">>)),
      Many("uninterpreted_option", 999, Msg(<<"UninterpretedOption">>))>>) EXCEPT
      !.enums = <<OptimizeMode>>, !.taken = << ToTheEnd, <<38, 39>> >>]
MessageOptions ==
  [Message("MessageOptions", <<
      Flag("message_set_wire_format", 1), Flag("no_standard_descriptor_accessor", 2), Flag("deprecated", 3),
      One("map_entry", 7, Bool), One("deprecated_legacy_json_field_conflicts", 11, Bool),
      One("features", 12, Msg(<<"FeatureSet">>)),
      Many("uninterpreted_option", 999, Msg(<<"UninterpretedOption">>))>>) EXCEPT
      !.taken = << ToTheEnd, <<4, 5>>, <<5, 6>>, <<6, 7>>, <<8, 9>>, <<9, 10>> >>]
EditionDefault ==
  Message("EditionDefault", <<One("edition", 3, Enumeration(<<"Edition">>)), One("value", 2, Text)>>)
CType == Values("CType", 0, <<"STRING", "CORD", "STRING_PIECE">>)
JSType == Values("JSType", 0, <<"JS_NORMAL", "JS_STRING", "JS_NUMBER">>)
OptionRetention ==
  Values("OptionRetention", 0, <<"RETENTION_UNKNOWN", "RETENTION_RUNTIME", "RETENTION_SOURCE">>)
OptionTargetType ==
  Values("OptionTargetType", 0, <<"TARGET_TYPE_UNKNOWN", "TARGET_TYPE_FILE", "TARGET_TYPE_EXTENSION_RANGE",
    "TARGET_TYPE_MESSAGE", "TARGET_TYPE_FIELD", "TARGET_TYPE_ONEOF", "TARGET_TYPE_ENUM",
    "TARGET_TYPE_ENUM_ENTRY", "TARGET_TYPE_SERVICE", "TARGET_TYPE_METHOD">>)
FieldOptions ==
  [Message("FieldOptions", <<
      Preset(One("ctype", 1, Enumeration(<<"FieldOptions", "CType">>)), "STRING"), One("packed", 2, Bool),
      Preset(One("jstype", 6, Enumeration(<<"FieldOptions", "JSType">>)), "JS_NORMAL"), Flag("lazy", 5),
      Flag("unverified_lazy", 15), Flag("deprecated", 3), Flag("weak", 10), Flag("debug_redact", 16),
      One("retention", 17, Enumeration(<<"FieldOptions", "OptionRetention">>)),
      Many("targets", 19, Enumeration(<<"FieldOptions", "OptionTargetType">>)),
      Many("edition_defaults", 20, Msg(<<"FieldOptions", "EditionDefault">>)),
      One("features", 21, Msg(<<"FeatureSet">>)),
      Many("uninterpreted_option", 999, Msg(<<"UninterpretedOption">>))>>) EXCEPT
      !.messages = <<EditionDefault>>, !.enums = <<CType, JSType, OptionRetention, OptionTargetType>>,
      !.taken = << ToTheEnd, <<4, 5>>, <<18, 19>> >>]
OneofOptions ==
  [Message("OneofOptions", <<
      One("features", 1, Msg(<<"FeatureSet">>)),
      Many("uninterpreted_option", 999, Msg(<<"UninterpretedOption">>))>>) EXCEPT
      !.taken = << ToTheEnd >>]
EnumOptions ==
  [Message("EnumOptions", <<
      One("allow_alias", 2, Bool), Flag("deprecated", 3),
      One("deprecated_legacy_json_field_conflicts", 6, Bool), One("features", 7, Msg(<<"FeatureSet">>)),
      Many("uninterpreted_option", 999, Msg(<<"UninterpretedOption">>))>>) EXCEPT
      !.taken = << ToTheEnd, <<5, 6>> >>]
EnumValueOptions ==
  [Message("EnumValueOptions", <<
      Flag("deprecated", 1), One("features", 2, Msg(<<"FeatureSet">>)), Flag("debug_redact", 3),
      Many("uninterpreted_option", 999, Msg(<<"UninterpretedOption">>))>>) EXCEPT
      !.taken = << ToTheEnd >>]
ServiceOptions ==
  [Message("ServiceOptions", <<
      One("features", 34, Msg(<<"FeatureSet">>)), Flag("deprecated", 33),
      Many("uninterpreted_option", 999, Msg(<<"UninterpretedOption">>))>>) EXCEPT
      !.taken = << ToTheEnd >>]
IdempotencyLevel == Values("IdempotencyLevel", 0, <<"IDEMPOTENCY_UNKNOWN", "NO_SIDE_EFFECTS", "IDEMPOTENT">>)
MethodOptions ==
  [Message("MethodOptions", <<
      Flag("deprecated", 33),
      Preset(One("idempotency_level", 34, Enumeration(<<"MethodOptions", "IdempotencyLevel">>)), "IDEMPOTENCY_UNKNOWN"),
      One("features", 35, Msg(<<"FeatureSet">>)),
      Many("uninterpreted_option", 999, Msg(<<"UninterpretedOption">>))>>) EXCEPT
      !.enums = <<IdempotencyLevel>>, !.taken = << ToTheEnd >>]
NamePart == Message("NamePart", <<Needed("name_part", 1, Text), Needed("is_extension", 2, Bool)>>)
UninterpretedOption ==
  [Message("UninterpretedOption", <<
      Many("name", 2, Msg(<<"UninterpretedOption", "NamePart">>)), One("identifier_value", 3, Text),
      One("positive_int_value", 4, UInt64), One("negative_int_value", 5, Int64),
      One("double_value", 6, Double), One("string_value", 7, Octets), One("aggregate_value", 8, Text)>>) EXCEPT
      !.messages = <<NamePart>>]
FieldPresence ==
  Values("FieldPresence", 0, <<"FIELD_PRESENCE_UNKNOWN", "EXPLICIT", "IMPLICIT", "LEGACY_REQUIRED">>)
EnumType == Values("EnumType", 0, <<"ENUM_TYPE_UNKNOWN", "OPEN", "CLOSED">>)
RepeatedFieldEncoding ==
  Values("RepeatedFieldEncoding", 0, <<"REPEATED_FIELD_ENCODING_UNKNOWN", "PACKED", "EXPANDED">>)
Utf8Validation == Values("Utf8Validation", 0, <<"UTF8_VALIDATION_UNKNOWN", "NONE", "VERIFY">>)
MessageEncoding == Values("MessageEncoding", 0, <<"MESSAGE_ENCODING_UNKNOWN", "LENGTH_PREFIXED", "DELIMITED">>)
JsonFormat == Values("JsonFormat", 0, <<"JSON_FORMAT_UNKNOWN", "ALLOW", "LEGACY_BEST_EFFORT">>)
FeatureSet ==
  [Message("FeatureSet", <<
      One("field_presence", 1, Enumeration(<<"FeatureSet", "FieldPresence">>)),
      One("enum_type", 2, Enumeration(<<"FeatureSet", "EnumType">>)),
      One("repeated_field_encoding", 3, Enumeration(<<"FeatureSet", "RepeatedFieldEncoding">>)),
      One("utf8_validation", 4, Enumeration(<<"FeatureSet", "Utf8Validation">>)),
      One("message_encoding", 5, Enumeration(<<"FeatureSet", "MessageEncoding">>)),
      One("json_format", 6, Enumeration(<<"FeatureSet", "JsonFormat">>))>>) EXCEPT
      !.enums = <<FieldPresence, EnumType, RepeatedFieldEncoding, Utf8Validation, MessageEncoding, JsonFormat>>,
      !.taken = << <<1000, 1001>>, <<1001, 1002>>, <<9995, 10000>>, <<999, 1000>> >>]
FeatureSetEditionDefault ==
  Message("FeatureSetEditionDefault", <<
      One("edition", 3, Enumeration(<<"Edition">>)), One("features", 2, Msg(<<"FeatureSet">>))>>)
FeatureSetDefaults ==
  [Message("FeatureSetDefaults", <<
      Many("defaults", 1, Msg(<<"FeatureSetDefaults", "FeatureSetEditionDefault">>)),
      One("minimum_edition", 4, Enumeration(<<"Edition">>)),
      One("maximum_edition", 5, Enumeration(<<"Edition">>))>>) EXCEPT
      !.messages = <<FeatureSetEditionDefault>>]
Location ==
  Message("Location", <<
      Packed(Many("path", 1, Int32)), Packed(Many("span", 2, Int32)), One("leading_comments", 3, Text),
      One("trailing_comments", 4, Text), Many("leading_detached_comments", 6, Text)>>)
SourceCodeInfo ==
  [Message("SourceCodeInfo", <<Many("location", 1, Msg(<<"SourceCodeInfo", "Location">>))>>) EXCEPT
      !.messages = <<Location>>]
Semantic == Values("Semantic", 0, <<"NONE", "SET", "ALIAS">>)
Annotation ==
  [Message("Annotation", <<
      Packed(Many("path", 1, Int32)), One("source_file", 2, Text), One("begin", 3, Int32),
      One("end", 4, Int32),
      One("semantic", 5, Enumeration(<<"GeneratedCodeInfo", "Annotation", "Semantic">>))>>) EXCEPT
      !.enums = <<Semantic>>]
GeneratedCodeInfo ==
  [Message("GeneratedCodeInfo", <<Many("annotation", 1, Msg(<<"GeneratedCodeInfo", "Annotation">>))>>) EXCEPT
      !.messages = <<Annotation>>]
DescriptorFile ==
  ProtoFile("google/protobuf/descriptor.proto", Google, "proto2", << >>,
       <<FileDescriptorSet, FileDescriptorProto, DescriptorProto, ExtensionRangeOptions, FieldDescriptorProto,
         OneofDescriptorProto, EnumDescriptorProto, EnumValueDescriptorProto, ServiceDescriptorProto,
         MethodDescriptorProto, FileOptions, MessageOptions, FieldOptions, OneofOptions, EnumOptions,
         EnumValueOptions, ServiceOptions, MethodOptions, UninterpretedOption, FeatureSet, FeatureSetDefaults,
         SourceCodeInfo, GeneratedCodeInfo>>, <<Edition>>)

-----------------------------------------------------------------------------
\* google/protobuf/duration.proto
Duration == Message("Duration", <<One("seconds", 1, Int64), One("nanos", 2, Int32)>>)
DurationFile ==
  ProtoFile("google/protobuf/duration.proto", Google, "proto3", << >>,
       <<Duration>>, << >>)

-----------------------------------------------------------------------------
\* google/protobuf/empty.proto
Empty == Message("Empty", << >>)
EmptyFile ==
  ProtoFile("google/protobuf/empty.proto", Google, "proto3", << >>,
       <<Empty>>, << >>)

-----------------------------------------------------------------------------
\* google/protobuf/field_mask.proto
FieldMask == Message("FieldMask", <<Many("paths", 1, Text)>>)
FieldMaskFile ==
  ProtoFile("google/protobuf/field_mask.proto", Google, "proto3", << >>,
       <<FieldMask>>, << >>)

-----------------------------------------------------------------------------
\* google/protobuf/struct.proto
NullValue == Values("NullValue", 0, <<"NULL_VALUE">>)
FieldsEntry ==
  [Message("FieldsEntry", <<One("key", 1, Text), One("value", 2, Msg(<<"Value">>))>>) EXCEPT
      !.mapEntry = TRUE]
Struct ==
  [Message("Struct", <<Many("fields", 1, Msg(<<"Struct", "FieldsEntry">>))>>) EXCEPT
      !.messages = <<FieldsEntry>>]
Value ==
  [Message("Value", <<
      Within(0, One("null_value", 1, Enumeration(<<"NullValue">>))),
      Within(0, One("number_value", 2, Double)), Within(0, One("string_value", 3, Text)),
      Within(0, One("bool_value", 4, Bool)), Within(0, One("struct_value", 5, Msg(<<"Struct">>))),
      Within(0, One("list_value", 6, Msg(<<"ListValue">>)))>>) EXCEPT
      !.oneofs = <<"kind">>]
ListValue == Message("ListValue", <<Many("values", 1, Msg(<<"Value">>))>>)
StructFile ==
  ProtoFile("google/protobuf/struct.proto", Google, "proto3", << >>,
       <<Struct, Value, ListValue>>, <<NullValue>>)

-----------------------------------------------------------------------------
\* google/protobuf/timestamp.proto
Timestamp == Message("Timestamp", <<One("seconds", 1, Int64), One("nanos", 2, Int32)>>)
TimestampFile ==
  ProtoFile("google/protobuf/timestamp.proto", Google, "proto3", << >>,
       <<Timestamp>>, << >>)

-----------------------------------------------------------------------------
\* google/protobuf/wrappers.proto
DoubleValue == Message("DoubleValue", <<One("value", 1, Double)>>)
FloatValue == Message("FloatValue", <<One("value", 1, Float)>>)
Int64Value == Message("Int64Value", <<One("value", 1, Int64)>>)
UInt64Value == Message("UInt64Value", <<One("value", 1, UInt64)>>)
Int32Value == Message("Int32Value", <<One("value", 1, Int32)>>)
UInt32Value == Message("UInt32Value", <<One("value", 1, UInt32)>>)
BoolValue == Message("BoolValue", <<One("value", 1, Bool)>>)
StringValue == Message("StringValue", <<One("value", 1, Text)>>)
BytesValue == Message("BytesValue", <<One("value", 1, Octets)>>)
WrappersFile ==
  ProtoFile("google/protobuf/wrappers.proto", Google, "proto3", << >>,
       <<DoubleValue, FloatValue, Int64Value, UInt64Value, Int32Value, UInt32Value, BoolValue, StringValue,
         BytesValue>>, << >>)

-----------------------------------------------------------------------------
\* google/protobuf/compiler/plugin.proto
Version ==
  Message("Version", <<
      One("major", 1, Int32), One("minor", 2, Int32), One("patch", 3, Int32), One("suffix", 4, Text)>>)
CodeGeneratorRequest ==
  Message("CodeGeneratorRequest", <<
      Many("file_to_generate", 1, Text), One("parameter", 2, Text),
      Many("proto_file", 15, Msg(<<"FileDescriptorProto">>)),
      Many("source_file_descriptors", 17, Msg(<<"FileDescriptorProto">>)),
      One("compiler_version", 3, Msg(<<"compiler", "Version">>))>>)
File ==
  Message("File", <<
      One("name", 1, Text), One("insertion_point", 2, Text), One("content", 15, Text),
      One("generated_code_info", 16, Msg(<<"GeneratedCodeInfo">>))>>)
Feature == Values("Feature", 0, <<"FEATURE_NONE", "FEATURE_PROTO3_OPTIONAL", "FEATURE_SUPPORTS_EDITIONS">>)
CodeGeneratorResponse ==
  [Message("CodeGeneratorResponse", <<
      One("error", 1, Text), One("supported_features", 2, UInt64),
      Many("file", 15, Msg(<<"compiler", "CodeGeneratorResponse", "File">>))>>) EXCEPT
      !.messages = <<File>>, !.enums = <<Feature>>]
PluginFile ==
  ProtoFile("google/protobuf/compiler/plugin.proto", Append(Google, "compiler"), "proto2", <<"google/protobuf/descriptor.proto">>,
       <<Version, CodeGeneratorRequest, CodeGeneratorResponse>>, << >>)

-----------------------------------------------------------------------------

\* make_descriptor
WellKnownFiles ==
  <<AnyFile, SourceContextFile, TypeFile, ApiFile, DescriptorFile, DurationFile, EmptyFile, FieldMaskFile,
    StructFile, TimestampFile, WrappersFile, PluginFile>>

\* impl_reflect_message!: within google.protobuf.
Reflected == {
  <<"Empty">>, <<"BoolValue">>, <<"FloatValue">>, <<"DoubleValue">>, <<"Int32Value">>, <<"Int64Value">>,
  <<"StringValue">>, <<"UInt32Value">>, <<"UInt64Value">>, <<"BytesValue">>, <<"Any">>, <<"Api">>,
  <<"compiler", "CodeGeneratorRequest">>, <<"compiler", "CodeGeneratorResponse">>,
  <<"compiler", "CodeGeneratorResponse", "File">>, <<"compiler", "Version">>, <<"DescriptorProto">>,
  <<"DescriptorProto", "ExtensionRange">>, <<"DescriptorProto", "ReservedRange">>, <<"Duration">>,
  <<"Enum">>, <<"EnumDescriptorProto">>, <<"EnumDescriptorProto", "EnumReservedRange">>, <<"EnumOptions">>,
  <<"EnumValue">>, <<"EnumValueDescriptorProto">>, <<"EnumValueOptions">>, <<"ExtensionRangeOptions">>,
  <<"Field">>, <<"FieldDescriptorProto">>, <<"FieldMask">>, <<"FieldOptions">>, <<"FileDescriptorProto">>,
  <<"FileDescriptorSet">>, <<"FileOptions">>, <<"GeneratedCodeInfo">>,
  <<"GeneratedCodeInfo", "Annotation">>, <<"ListValue">>, <<"MessageOptions">>, <<"Method">>,
  <<"MethodDescriptorProto">>, <<"MethodOptions">>, <<"Mixin">>, <<"OneofDescriptorProto">>,
  <<"OneofOptions">>, <<"Option">>, <<"ServiceDescriptorProto">>, <<"ServiceOptions">>,
  <<"SourceCodeInfo">>, <<"SourceCodeInfo", "Location">>, <<"SourceContext">>, <<"Struct">>,
  <<"Timestamp">>, <<"Type">>, <<"UninterpretedOption">>, <<"UninterpretedOption", "NamePart">>, <<"Value">> }
=============================================================================
