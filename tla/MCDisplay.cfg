SPECIFICATION Spec
INVARIANTS
  TypeOK
  PictureRight
  DrawingRight
  OffscreenKept
