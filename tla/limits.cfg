SPECIFICATION Spec
PROPERTY MeritPays
