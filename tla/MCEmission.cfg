CONSTANTS
  Node <- MCNode
  Key <- MCKey
  Word = {Root, ValidationError, Foo, Bar, Digit}
  Root = Root
  ValidationError = ValidationError
  Foo = Foo
  Bar = Bar
  Digit = Digit
  TypeName <- MCTypeName
  FieldName <- MCFieldName
  Documents <- MCDocuments
  MaxBytes = 6
  Unnamed = Unnamed
  Primitive = Primitive
SPECIFICATION Spec
INVARIANTS
  TypeOK
  NamesDistinct
  FieldTypesDeclared
