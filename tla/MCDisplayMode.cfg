SPECIFICATION Spec
PROPERTIES
  DrawnInGraphicMode
