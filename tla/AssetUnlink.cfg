SPECIFICATION Spec
CONSTANTS
    Asset <- MCAsset
    KindOf <- MCKindOf
PROPERTY
    DeletedAssetsAreUnlinked
