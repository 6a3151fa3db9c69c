SPECIFICATION Spec
CONSTANTS
  Unit = unit
  Leaf = leaf
  Backup = backup
  Retention = retention
  Operator = operator
  Deploy = deploy
  None = none
  MaxVersion = 2
  MaxBackups = 2
INVARIANTS
  TypeOK
  NoMixedBackup
  PrivateInputsAccounted
  InputsWhileDrill
PROPERTIES
  UpdateAllOrNothing
  ActivatedOnProvenBackup
