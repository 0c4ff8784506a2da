---------------------------- MODULE StatusCodes ----------------------------
(***************************************************************************)
(* The status codes of the CIM client library and the Ruby exceptions they *)
(* become.  The C code looks an exception class up by its name when it     *)
(* raises; the classes are defined in Ruby.                                *)
(***************************************************************************)

\* sfcc_status_exception: the name it asks the module Sfcc::Cim for.
ClassName ==
  [ERR_FAILED                |-> "ErrorFailed",
   ERR_ACCESS_DENIED         |-> "ErrorAcessDenied",
   ERR_INVALID_NAMESPACE     |-> "ErrorInvalidNamespace",
   ERR_INVALID_PARAMETER     |-> "ErrorInvalidParameter",
   ERR_INVALID_CLASS         |-> "ErrorInvalidClass",
   ERR_NOT_FOUND             |-> "ErrorNotFound",
   ERR_NOT_SUPPORTED         |-> "ErrorNotSupported",
   ERR_CLASS_HAS_CHILDREN    |-> "ErrorClassHasChildren",
   ERR_CLASS_HAS_INSTANCES   |-> "ErrorClassHasInstances",
   ERR_INVALID_SUPERCLASS    |-> "ErrorInvalidSuperClass",
   ERR_ALREADY_EXISTS        |-> "ErrorAlreadyExists",
   ERR_NO_SUCH_PROPERTY      |-> "ErrorNoSuchProperty",
   ERR_TYPE_MISMATCH         |-> "ErrorTypeMismatch",
   ERR_QUERY_LANGUAGE_NOT_SUPPORTED |-> "ErrorQueryLanguageNotSupported",
   ERR_INVALID_QUERY         |-> "ErrorInvalidQuery",
   ERR_METHOD_NOT_AVAILABLE  |-> "ErrorMethodNotAvailable",
   ERR_METHOD_NOT_FOUND      |-> "ErrorMethodNotFound",
   DO_NOT_UNLOAD             |-> "ErrorDoNotUnload",
   NEVER_UNLOAD              |-> "ErrorNeverUnload",
   ERROR_SYSTEM              |-> "ErrorSystem",
   ERROR                     |-> "ErrorRcError"]

\* The code means another one the library may define: it has no case.
Known == DOMAIN ClassName
Failure == Known \cup {"UNLISTED"}

\* lib/sfcc/cim.rb: the class made for each code.
Documented ==
  [ClassName EXCEPT !.ERR_ACCESS_DENIED = "ErrorAccessDenied",
                    !.ERR_TYPE_MISMATCH = "ErrorTypeMisMatch",
                    !.ERROR_SYSTEM      = "ErrorErrorSystem"]
DefinedClass == {Documented[s] : s \in Known \ {"NEVER_UNLOAD"}}

\* The codes for which the two disagree.
Misnamed == {"ERR_ACCESS_DENIED", "ERR_TYPE_MISMATCH", "ERROR_SYSTEM", "NEVER_UNLOAD"}

\* Fault: a case of the switch has no return of its own and runs into the next.
RaisedFallsThrough(s) ==
  IF s = "UNLISTED" THEN "Undefined"
  ELSE IF s = "ERR_METHOD_NOT_AVAILABLE" THEN ClassName.ERR_METHOD_NOT_FOUND
  ELSE IF ClassName[s] \in DefinedClass THEN ClassName[s] ELSE "NameError"

\* The exception that sfcc_rb_raise_if_error raises: rb_const_get raises
\* NameError itself for a class that is not defined.  For a code without a case
\* rb_raise is given nil for a class: what Ruby makes of that is left open.
Raised(s) ==
  IF s = "UNLISTED" THEN "Undefined"
  ELSE IF ClassName[s] \in DefinedClass THEN ClassName[s] ELSE "NameError"
=============================================================================
